---- MODULE Spec2Model ----
(***************************************************************************)
(* A model of the cubie-model Rubik's Cube solver: the state and its       *)
(* invariant checks (cube_state.py), the 18 move tables and their          *)
(* application (moves.py), apply_moves and verify_solution (utils.py),     *)
(* the sticker-grid converter (cube_converter.py, cube_gui.py), the        *)
(* pattern databases and their heuristic (pattern_databases.py,            *)
(* heuristics.py) and the IDA* solver (search.py).                         *)
(* Arrays are functions over 0-based index ranges, as in the source.       *)
(***************************************************************************)
EXTENDS Integers, Sequences, FiniteSets, TLC

VARIABLES
    state,          \* the CubeState being worked on (current_state, a copy)
    initial_state,  \* the CubeState the caller passed in
    path,           \* names of the moves applied so far, in order
    move_names,     \* apply_moves: the list of names passed in
    outcome,        \* how the call under way has ended, or that it has not
    faces,          \* the 6x3x3 sticker grid on display
    painted,        \* how many facelets the user has repainted
    decoded,        \* what faces_to_cubie_state returned for the grid
    refaces,        \* the grid rendered from the decoded state
    heuristic,      \* the Heuristic in use: its three tables
    h_value,        \* what Heuristic.h returned
    max_iterations, \* solve: the iteration limit passed in
    threshold,      \* solve: the threshold of the iteration under way
    iteration,      \* solve: the loop variable
    stack,          \* the frames of the calls of _search under way
    returned,       \* the pair the call of _search that just ended returned
    result,         \* what solve returned
    unknown_from,   \* least f a node cut off beyond the tables may have
    cut_off,        \* history: the f of each node cut off in this iteration
    nodes_expanded, \* IDAStar.nodes_expanded
    max_depth_reached, \* IDAStar.max_depth_reached
    other_state,    \* a second CubeState, ranked next to state
    permutation,    \* the list handed to lehmer_encode
    lehmer_index,   \* what lehmer_encode returned
    decoded_perm,   \* what lehmer_decode returned for lehmer_index
    pdb_build,      \* a table build under way: its table and its locals
    written,        \* the entries the build has written, in order
    edge6_index     \* what Edge6PDB.abstract returned for state and other_state

cubeVars == <<state, initial_state, path, move_names, outcome>>
codecVars == <<faces, painted, decoded, refaces>>
solveVars == <<max_iterations, threshold, iteration, stack, returned, result,
               unknown_from, cut_off, nodes_expanded, max_depth_reached>>
searchVars == <<heuristic, h_value, solveVars>>
tableVars == <<other_state, permutation, lehmer_index, decoded_perm, pdb_build,
               written, edge6_index>>

vars == <<cubeVars, codecVars, searchVars, tableVars>>

\* the converter is not in use
CodecIdle == faces = <<>> /\ painted = 0 /\ decoded = <<>> /\ refaces = <<>>

\* the solver is not in use
SolverIdle ==
    /\ h_value = 0 /\ max_iterations = 0 /\ threshold = 0 /\ iteration = 0
    /\ stack = <<>> /\ returned = <<>> /\ result = <<>> /\ unknown_from = 0
    /\ cut_off = {}
    /\ nodes_expanded = 0 /\ max_depth_reached = 0

\* no heuristic has been built and the solver is not in use
SearchIdle == heuristic = <<>> /\ SolverIdle

\* no rank is being compared or computed and no table is being built
TablesIdle ==
    /\ other_state = <<>> /\ permutation = <<>> /\ lehmer_index = 0
    /\ decoded_perm = <<>> /\ pdb_build = <<>> /\ written = <<>>
    /\ edge6_index = <<>>

----------------------------------------------------------------------------
(* Bounds of the model.                                                    *)

\* longest sequence of moves applied in a walk
MaxMoves == 2

\* longest list of names handed to apply_moves, the fixed scripts apart
MaxNames == 2

----------------------------------------------------------------------------
(* Array helpers.                                                          *)

\* a Python list literal: 0-based array with the elements of tuple t
Z(t) == [i \in 0..(Len(t) - 1) |-> t[i + 1]]

\* "a[:] = temp": the array holding the elements of temp
copy_back(temp) == temp @@ temp

\* np.arange(n)
arange(n) == [i \in 0..(n - 1) |-> i]

\* np.zeros(n)
zeros(n) == [i \in 0..(n - 1) |-> 0]

RECURSIVE SumTo(_, _)
\* sum of a[0..k-1]
SumTo(a, k) == IF k = 0 THEN 0 ELSE SumTo(a, k - 1) + a[k - 1]

\* np.sum(a)
np_sum(a) == SumTo(a, Cardinality(DOMAIN a))

----------------------------------------------------------------------------
(* cube_state.py                                                           *)

\* CubeState.__init__ with the four arrays given
CubeState(cp, co, ep, eo) ==
    [corner_perm |-> cp, corner_orient |-> co, edge_perm |-> ep, edge_orient |-> eo]

\* solved_state(): CubeState() with no arguments
solved_state == CubeState(arange(8), zeros(8), arange(12), zeros(12))

\* CubeState.is_solved
is_solved(s) ==
    /\ s.corner_perm = arange(8)
    /\ \A i \in 0..7 : s.corner_orient[i] = 0
    /\ s.edge_perm = arange(12)
    /\ \A i \in 0..11 : s.edge_orient[i] = 0

RECURSIVE WalkCycle(_, _, _, _)
\* the inner while loop of _permutation_parity: follow perm from j until a
\* visited index is met; yields the visited set and the cycle length
WalkCycle(perm, visited, j, cycle_length) ==
    IF j \in visited
    THEN [visited |-> visited, cycle_length |-> cycle_length]
    ELSE WalkCycle(perm, visited \cup {j}, perm[j], cycle_length + 1)

RECURSIVE ParityFrom(_, _, _, _)
\* the outer for loop of _permutation_parity, from index i on
ParityFrom(perm, i, visited, parity) ==
    IF i = Cardinality(DOMAIN perm) THEN parity
    ELSE IF i \in visited THEN ParityFrom(perm, i + 1, visited, parity)
    ELSE LET w == WalkCycle(perm, visited, i, 0)
         IN  ParityFrom(perm, i + 1, w.visited,
                        IF w.cycle_length > 1
                        THEN (parity + w.cycle_length - 1) % 2
                        ELSE parity)

\* CubeState._permutation_parity: 0 for even, 1 for odd
permutation_parity(perm) == ParityFrom(perm, 0, {}, 0)

\* CubeState.is_valid
is_valid(s) ==
    /\ permutation_parity(s.corner_perm) = permutation_parity(s.edge_perm)
    /\ np_sum(s.corner_orient) % 3 = 0
    /\ np_sum(s.edge_orient) % 2 = 0

----------------------------------------------------------------------------
(* moves.py                                                                *)

MOVE_NAMES ==
    << "U", "U2", "U'", "D", "D2", "D'", "L", "L2", "L'",
       "R", "R2", "R'", "F", "F2", "F'", "B", "B2", "B'" >>

MoveNameSet == {MOVE_NAMES[i] : i \in 1..Len(MOVE_NAMES)}

\* MOVE_INVERSES with one entry wrong: U maps to itself
MOVE_INVERSES_U_self ==
    [n \in MoveNameSet |->
        CASE n = "U" -> "U"   [] n = "U'" -> "U"   [] n = "U2" -> "U2"
          [] n = "D" -> "D'"  [] n = "D'" -> "D"   [] n = "D2" -> "D2"
          [] n = "L" -> "L'"  [] n = "L'" -> "L"   [] n = "L2" -> "L2"
          [] n = "R" -> "R'"  [] n = "R'" -> "R"   [] n = "R2" -> "R2"
          [] n = "F" -> "F'"  [] n = "F'" -> "F"   [] n = "F2" -> "F2"
          [] n = "B" -> "B'"  [] n = "B'" -> "B"   [] n = "B2" -> "B2"]

MOVE_INVERSES ==
    [n \in MoveNameSet |->
        CASE n = "U" -> "U'"  [] n = "U'" -> "U"   [] n = "U2" -> "U2"
          [] n = "D" -> "D'"  [] n = "D'" -> "D"   [] n = "D2" -> "D2"
          [] n = "L" -> "L'"  [] n = "L'" -> "L"   [] n = "L2" -> "L2"
          [] n = "R" -> "R'"  [] n = "R'" -> "R"   [] n = "R2" -> "R2"
          [] n = "F" -> "F'"  [] n = "F'" -> "F"   [] n = "F2" -> "F2"
          [] n = "B" -> "B'"  [] n = "B'" -> "B"   [] n = "B2" -> "B2"]

\* FACE_TO_MOVES / MOVE_TO_FACE: the face letter of a move name
MOVE_TO_FACE ==
    [n \in MoveNameSet |->
        CASE n \in {"U", "U2", "U'"} -> "U"
          [] n \in {"D", "D2", "D'"} -> "D"
          [] n \in {"L", "L2", "L'"} -> "L"
          [] n \in {"R", "R2", "R'"} -> "R"
          [] n \in {"F", "F2", "F'"} -> "F"
          [] n \in {"B", "B2", "B'"} -> "B"]

\* the loops of Move.__init__ that fill corner_perm_inv / edge_perm_inv:
\* inv[p[i]] = i for i ascending, over an array that starts as zeros
perm_inv(p) ==
    [k \in DOMAIN p |->
        LET hits == {i \in DOMAIN p : p[i] = k}
        IN  IF hits = {} THEN 0 ELSE CHOOSE i \in hits : \A h \in hits : h <= i]

\* Move.__init__
Move(name, corner_perm, corner_orient_delta, edge_perm, edge_orient_delta) ==
    [name |-> name,
     corner_perm |-> Z(corner_perm),
     corner_orient_delta |-> Z(corner_orient_delta),
     edge_perm |-> Z(edge_perm),
     edge_orient_delta |-> Z(edge_orient_delta),
     corner_perm_inv |-> perm_inv(Z(corner_perm)),
     edge_perm_inv |-> perm_inv(Z(edge_perm))]

NoEdgeFlip == <<0, 0, 0, 0, 0, 0, 0, 0, 0, 0, 0, 0>>
NoTwist == <<0, 0, 0, 0, 0, 0, 0, 0>>

\* the 18 literal tables of create_move_tables(), in source order
Move_U ==
    Move("U",
         <<0, 1, 4, 2, 5, 3, 6, 7>>,
         NoTwist,
         <<3, 0, 1, 2, 4, 5, 6, 7, 8, 9, 10, 11>>,
         NoEdgeFlip)

Move_U2 ==
    Move("U2",
         <<0, 1, 5, 4, 3, 2, 6, 7>>,
         NoTwist,
         <<2, 3, 0, 1, 4, 5, 6, 7, 8, 9, 10, 11>>,
         NoEdgeFlip)

\* U' with the edge cycle of U
Move_Up_edges_of_U ==
    Move("U'",
         <<0, 1, 3, 5, 2, 4, 6, 7>>,
         NoTwist,
         <<3, 0, 1, 2, 4, 5, 6, 7, 8, 9, 10, 11>>,
         NoEdgeFlip)

Move_Up ==
    Move("U'",
         <<0, 1, 3, 5, 2, 4, 6, 7>>,
         NoTwist,
         <<1, 2, 3, 0, 4, 5, 6, 7, 8, 9, 10, 11>>,
         NoEdgeFlip)

Move_D ==
    Move("D",
         <<1, 7, 2, 3, 4, 5, 0, 6>>,
         NoTwist,
         <<0, 1, 2, 3, 4, 5, 6, 7, 9, 10, 11, 8>>,
         NoEdgeFlip)

\* D2 with the corner cycle of D
Move_D2_corners_of_D ==
    Move("D2",
         <<1, 7, 2, 3, 4, 5, 0, 6>>,
         NoTwist,
         <<0, 1, 2, 3, 4, 5, 6, 7, 10, 11, 8, 9>>,
         NoEdgeFlip)

Move_D2 ==
    Move("D2",
         <<7, 6, 2, 3, 4, 5, 1, 0>>,
         NoTwist,
         <<0, 1, 2, 3, 4, 5, 6, 7, 10, 11, 8, 9>>,
         NoEdgeFlip)

Move_Dp ==
    Move("D'",
         <<6, 0, 2, 3, 4, 5, 7, 1>>,
         NoTwist,
         <<0, 1, 2, 3, 4, 5, 6, 7, 11, 8, 9, 10>>,
         NoEdgeFlip)

Move_L ==
    Move("L",
         <<0, 1, 2, 3, 6, 4, 7, 5>>,
         <<0, 0, 0, 0, 2, 1, 1, 2>>,
         <<0, 1, 2, 4, 11, 5, 6, 3, 8, 9, 10, 7>>,
         NoEdgeFlip)

Move_L2 ==
    Move("L2",
         <<0, 1, 2, 3, 7, 6, 5, 4>>,
         NoTwist,
         <<0, 1, 2, 11, 7, 5, 6, 4, 8, 9, 10, 3>>,
         NoEdgeFlip)

Move_Lp ==
    Move("L'",
         <<0, 1, 2, 3, 5, 7, 4, 6>>,
         <<0, 0, 0, 0, 2, 1, 1, 2>>,
         <<0, 1, 2, 7, 3, 5, 6, 11, 8, 9, 10, 4>>,
         NoEdgeFlip)

Move_Rp ==
    Move("R'",
         <<1, 3, 0, 2, 4, 5, 6, 7>>,
         <<2, 1, 1, 2, 0, 0, 0, 0>>,
         <<0, 5, 2, 3, 4, 9, 1, 7, 8, 6, 10, 11>>,
         NoEdgeFlip)

Move_R2 ==
    Move("R2",
         <<3, 2, 1, 0, 4, 5, 6, 7>>,
         NoTwist,
         <<0, 9, 2, 3, 4, 6, 5, 7, 8, 1, 10, 11>>,
         NoEdgeFlip)

\* R with the twist of one corner wrong
Move_R_wrong_twist ==
    Move("R",
         <<2, 0, 3, 1, 4, 5, 6, 7>>,
         <<2, 1, 1, 1, 0, 0, 0, 0>>,
         <<0, 6, 2, 3, 4, 1, 9, 7, 8, 5, 10, 11>>,
         NoEdgeFlip)

Move_R ==
    Move("R",
         <<2, 0, 3, 1, 4, 5, 6, 7>>,
         <<2, 1, 1, 2, 0, 0, 0, 0>>,
         <<0, 6, 2, 3, 4, 1, 9, 7, 8, 5, 10, 11>>,
         NoEdgeFlip)

\* F flipping three edges instead of four
Move_F_three_flips ==
    Move("F",
         <<6, 1, 0, 3, 2, 5, 4, 7>>,
         <<1, 0, 2, 0, 1, 0, 2, 0>>,
         <<5, 1, 2, 3, 0, 8, 6, 7, 4, 9, 10, 11>>,
         <<1, 0, 0, 0, 1, 1, 0, 0, 0, 0, 0, 0>>)

Move_F ==
    Move("F",
         <<6, 1, 0, 3, 2, 5, 4, 7>>,
         <<1, 0, 2, 0, 1, 0, 2, 0>>,
         <<5, 1, 2, 3, 0, 8, 6, 7, 4, 9, 10, 11>>,
         <<1, 0, 0, 0, 1, 1, 0, 0, 1, 0, 0, 0>>)

Move_F2 ==
    Move("F2",
         <<4, 1, 6, 3, 0, 5, 2, 7>>,
         NoTwist,
         <<8, 1, 2, 3, 5, 4, 6, 7, 0, 9, 10, 11>>,
         NoEdgeFlip)

Move_Fp ==
    Move("F'",
         <<2, 1, 4, 3, 6, 5, 0, 7>>,
         <<1, 0, 2, 0, 1, 0, 2, 0>>,
         <<4, 1, 2, 3, 8, 0, 6, 7, 5, 9, 10, 11>>,
         <<1, 0, 0, 0, 1, 1, 0, 0, 1, 0, 0, 0>>)

Move_Bp ==
    Move("B'",
         <<0, 7, 2, 1, 4, 3, 6, 5>>,
         <<0, 2, 0, 1, 0, 2, 0, 1>>,
         <<0, 1, 6, 3, 4, 5, 10, 2, 8, 9, 7, 11>>,
         <<0, 0, 1, 0, 0, 0, 1, 1, 0, 0, 1, 0>>)

Move_B2 ==
    Move("B2",
         <<0, 5, 2, 7, 4, 1, 6, 3>>,
         NoTwist,
         <<0, 1, 10, 3, 4, 5, 7, 6, 8, 9, 2, 11>>,
         NoEdgeFlip)

Move_B ==
    Move("B",
         <<0, 3, 2, 5, 4, 7, 6, 1>>,
         <<0, 2, 0, 1, 0, 2, 0, 1>>,
         <<0, 1, 7, 3, 4, 5, 2, 10, 8, 9, 6, 11>>,
         <<0, 0, 1, 0, 0, 0, 1, 1, 0, 0, 1, 0>>)

\* create_move_tables(): the dictionary of the 18 moves
create_move_tables ==
    [n \in MoveNameSet |->
      CASE n = "U" -> Move_U
        [] n = "U2" -> Move_U2
        [] n = "U'" -> Move_Up
        [] n = "D" -> Move_D
        [] n = "D2" -> Move_D2
        [] n = "D'" -> Move_Dp
        [] n = "L" -> Move_L
        [] n = "L2" -> Move_L2
        [] n = "L'" -> Move_Lp
        [] n = "R'" -> Move_Rp
        [] n = "R2" -> Move_R2
        [] n = "R" -> Move_R
        [] n = "F" -> Move_F
        [] n = "F2" -> Move_F2
        [] n = "F'" -> Move_Fp
        [] n = "B'" -> Move_Bp
        [] n = "B2" -> Move_B2
        [] n = "B" -> Move_B]

MOVE_TABLE == create_move_tables

\* an inverse table that maps each Move to itself
MOVE_INVERSE_TABLE_same_move == MOVE_TABLE

\* MOVE_INVERSE_TABLE: the Move that undoes the Move named n
MOVE_INVERSE_TABLE == [n \in MoveNameSet |-> MOVE_TABLE[MOVE_INVERSES[n]]]

\* apply_in_place that fills the temp buffers and never copies them back
apply_in_place_no_copy_back(move, s) == s

\* Move.apply_in_place: the state after the move, the temporary arrays
\* copied back
apply_in_place(move, s) ==
    [corner_perm |->
        copy_back([i \in 0..7 |-> s.corner_perm[move.corner_perm_inv[i]]]),
     corner_orient |->
        copy_back([i \in 0..7 |->
            (s.corner_orient[move.corner_perm_inv[i]] + move.corner_orient_delta[i]) % 3]),
     edge_perm |->
        copy_back([i \in 0..11 |-> s.edge_perm[move.edge_perm_inv[i]]]),
     edge_orient |->
        copy_back([i \in 0..11 |->
            (s.edge_orient[move.edge_perm_inv[i]] + move.edge_orient_delta[i]) % 2])]

\* Move.apply: copy, then apply_in_place on the copy
apply(move, s) == apply_in_place(move, s)

----------------------------------------------------------------------------
(* utils.py                                                                *)

RECURSIVE apply_moves(_, _)
\* apply_moves: the state after the named moves, or the ValueError raised at
\* the first name that is not in MOVE_TABLE
apply_moves(s, names) ==
    IF names = <<>> THEN [raised |-> FALSE, state |-> s]
    ELSE IF Head(names) \in DOMAIN MOVE_TABLE
         THEN apply_moves(apply(MOVE_TABLE[Head(names)], s), Tail(names))
         ELSE [raised |-> TRUE, state |-> s]

\* verify_solution
verify_solution(s, solution) ==
    LET r == apply_moves(s, solution)
    IN  ~r.raised /\ is_solved(r.state)

----------------------------------------------------------------------------
(* cube_converter.py                                                       *)

FACE_COLORS == Z(<<"W", "Y", "R", "O", "B", "G">>)

\* face indices
U == 0
L == 1
F == 2
R == 3
B == 4
D == 5

\* FACE_COLORS.index(color)
color_index(color) == CHOOSE i \in DOMAIN FACE_COLORS : FACE_COLORS[i] = color

\* per corner position, the three (face, row, col) facets
CORNER_DEFINITIONS ==
    Z(<< Z(<< <<D, 0, 2>>, <<F, 2, 2>>, <<R, 2, 0>> >>),
         Z(<< <<D, 2, 2>>, <<R, 2, 2>>, <<B, 2, 0>> >>),
         Z(<< <<U, 2, 2>>, <<R, 0, 0>>, <<F, 0, 2>> >>),
         Z(<< <<U, 0, 2>>, <<B, 0, 0>>, <<R, 0, 2>> >>),
         Z(<< <<U, 2, 0>>, <<F, 0, 0>>, <<L, 0, 2>> >>),
         Z(<< <<U, 0, 0>>, <<L, 0, 0>>, <<B, 0, 2>> >>),
         Z(<< <<D, 0, 0>>, <<L, 2, 2>>, <<F, 2, 0>> >>),
         Z(<< <<D, 2, 0>>, <<B, 2, 2>>, <<L, 2, 0>> >>) >>)

\* per edge position, the two (face, row, col) facets
EDGE_DEFINITIONS ==
    Z(<< Z(<< <<U, 2, 1>>, <<F, 0, 1>> >>),
         Z(<< <<U, 1, 2>>, <<R, 0, 1>> >>),
         Z(<< <<U, 0, 1>>, <<B, 0, 1>> >>),
         Z(<< <<U, 1, 0>>, <<L, 0, 1>> >>),
         Z(<< <<F, 1, 0>>, <<L, 1, 2>> >>),
         Z(<< <<F, 1, 2>>, <<R, 1, 0>> >>),
         Z(<< <<B, 1, 0>>, <<R, 1, 2>> >>),
         Z(<< <<B, 1, 2>>, <<L, 1, 0>> >>),
         Z(<< <<D, 0, 1>>, <<F, 2, 1>> >>),
         Z(<< <<D, 1, 2>>, <<R, 2, 1>> >>),
         Z(<< <<D, 2, 1>>, <<B, 2, 1>> >>),
         Z(<< <<D, 1, 0>>, <<L, 2, 1>> >>) >>)

SOLVED_CORNER_COLORS ==
    Z(<< Z(<<"Y", "G", "R">>), Z(<<"Y", "R", "B">>), Z(<<"W", "R", "G">>),
         Z(<<"W", "B", "R">>), Z(<<"W", "G", "O">>), Z(<<"W", "O", "B">>),
         Z(<<"Y", "O", "G">>), Z(<<"Y", "B", "O">>) >>)

CORNER_REFERENCE_COLORS == Z(<<"Y", "Y", "W", "W", "W", "W", "Y", "Y">>)

CORNER_REFERENCE_FACES == Z(<<D, D, U, U, U, U, D, D>>)

SOLVED_EDGE_COLORS ==
    Z(<< Z(<<"W", "G">>), Z(<<"W", "R">>), Z(<<"W", "B">>), Z(<<"W", "O">>),
         Z(<<"G", "O">>), Z(<<"G", "R">>), Z(<<"B", "R">>), Z(<<"B", "O">>),
         Z(<<"Y", "G">>), Z(<<"Y", "R">>), Z(<<"Y", "B">>), Z(<<"Y", "O">>) >>)

EDGE_POSITION_REFERENCE_FACES == Z(<<U, U, B, L, L, F, R, B, F, R, D, D>>)

EDGE_REFERENCE_COLORS ==
    Z(<<"W", "W", "B", "O", "O", "G", "R", "B", "G", "R", "Y", "Y">>)

\* Python's None, as a value that compares with states and pairs
None == [none |-> TRUE]

\* the loops "for i, x in enumerate(a): if x == v: idx = i; break": whether
\* idx is set at the end, and its value when it is
found_in(a, v) == \E i \in DOMAIN a : a[i] = v

first_index(a, v) ==
    LET hits == {i \in DOMAIN a : a[i] = v}
    IN  CHOOSE i \in hits : \A h \in hits : i <= h

\* a[k:] + a[:k] for a list a and 0 <= k < len(a)
rotate(a, k) ==
    LET n == Cardinality(DOMAIN a) IN [i \in 0..(n - 1) |-> a[(i + k) % n]]

\* a[::-1]
reversed(a) ==
    LET n == Cardinality(DOMAIN a) IN [i \in 0..(n - 1) |-> a[n - 1 - i]]

\* set(a)
set_of(a) == {a[i] : i \in DOMAIN a}

\* np.zeros((6, 3, 3))
zeros_633 == [f \in 0..5 |-> [r \in 0..2 |-> [c \in 0..2 |-> 0]]]

\* faces[face_idx, row, col]
sticker(fs, facet) == fs[facet[1]][facet[2]][facet[3]]

\* "for i, (face_idx, row, col) in enumerate(definition):
\*      faces[face_idx, row, col] = FACE_COLORS.index(colors[i])", from i on
RECURSIVE place_colors(_, _, _, _)
place_colors(fs, definition, colors, i) ==
    IF i = Cardinality(DOMAIN definition) THEN fs
    ELSE LET facet == definition[i]
         IN  place_colors(
                [fs EXCEPT ![facet[1]][facet[2]][facet[3]] = color_index(colors[i])],
                definition, colors, i + 1)

\* the colors cubie_state_to_faces puts on the three facets of corner
\* position pos, in the order of CORNER_DEFINITIONS[pos]
corner_colors_at(s, pos) ==
    LET cubie == s.corner_perm[pos]
        orient == s.corner_orient[pos]
        corner_def == CORNER_DEFINITIONS[pos]
        solved_colors == SOLVED_CORNER_COLORS[cubie]
        reference_color == CORNER_REFERENCE_COLORS[cubie]
        expected_ref_face == CORNER_REFERENCE_FACES[pos]
        corner_faces == [i \in 0..2 |-> corner_def[i][1]]
        ref_face_idx ==
            IF found_in(corner_faces, expected_ref_face)
            THEN first_index(corner_faces, expected_ref_face) ELSE 0
        ref_color_idx ==
            IF found_in(solved_colors, reference_color)
            THEN first_index(solved_colors, reference_color) ELSE 0
        target_ref_idx == (ref_face_idx + orient) % 3
        rotation == (target_ref_idx - ref_color_idx) % 3
    IN  rotate(solved_colors, rotation)

\* the colors cubie_state_to_faces puts on the two facets of edge position
\* pos, in the order of EDGE_DEFINITIONS[pos]
edge_colors_at(s, pos) ==
    LET cubie == s.edge_perm[pos]
        orient == s.edge_orient[pos]
        edge_def == EDGE_DEFINITIONS[pos]
        solved_colors == SOLVED_EDGE_COLORS[cubie]
        reference_color == EDGE_REFERENCE_COLORS[cubie]
        ref_color_idx ==
            IF found_in(solved_colors, reference_color)
            THEN first_index(solved_colors, reference_color) ELSE 0
        pos_ref_face == EDGE_POSITION_REFERENCE_FACES[pos]
        edge_faces == [i \in 0..1 |-> edge_def[i][1]]
        pos_ref_idx ==
            IF found_in(edge_faces, pos_ref_face)
            THEN first_index(edge_faces, pos_ref_face) ELSE 0
        colors ==
            [i \in 0..1 |->
                IF i = pos_ref_idx THEN solved_colors[ref_color_idx]
                ELSE solved_colors[1 - ref_color_idx]]
    IN  IF orient = 1 THEN reversed(colors) ELSE colors

RECURSIVE place_corners(_, _, _)
\* the corner loop of cubie_state_to_faces, from position pos on
place_corners(fs, s, pos) ==
    IF pos = 8 THEN fs
    ELSE LET placed == place_colors(fs, CORNER_DEFINITIONS[pos],
                                    corner_colors_at(s, pos), 0)
         \* the test holds for every grid; it has TLC evaluate the grid of
         \* this turn before the next turn starts
         IN  IF DOMAIN placed = 0..5 THEN place_corners(placed, s, pos + 1)
             ELSE placed

RECURSIVE place_edges(_, _, _)
\* the edge loop of cubie_state_to_faces, from position pos on
place_edges(fs, s, pos) ==
    IF pos = 12 THEN fs
    ELSE LET placed == place_colors(fs, EDGE_DEFINITIONS[pos],
                                    edge_colors_at(s, pos), 0)
         IN  IF DOMAIN placed = 0..5 THEN place_edges(placed, s, pos + 1)
             ELSE placed

\* center_colors = [0, 3, 5, 2, 4, 1] for U, L, F, R, B, D
center_colors == Z(<<0, 3, 5, 2, 4, 1>>)

\* cubie_state_to_faces
cubie_state_to_faces(s) ==
    LET fs == place_edges(place_corners(zeros_633, s, 0), s, 0)
    IN  [f \in 0..5 |-> [fs[f] EXCEPT ![1][1] = center_colors[f]]]

\* the loop goes on to the next cubie
continue == [continue |-> TRUE]

\* the body of the loop of find_corner_cubie for one cubie_idx: the pair it
\* returns, or continue
corner_cubie_try(colors, face_indices, corner_pos, cubie_idx) ==
    LET solved_colors == SOLVED_CORNER_COLORS[cubie_idx]
        reference_color == CORNER_REFERENCE_COLORS[cubie_idx]
        ref_color_idx == first_index(colors, reference_color)
        expected_reference_face == CORNER_REFERENCE_FACES[corner_pos]
        expected_ref_idx == first_index(face_indices, expected_reference_face)
    IN  IF set_of(colors) # set_of(solved_colors) THEN continue
        ELSE IF ~found_in(colors, reference_color) THEN continue
        ELSE IF ~found_in(face_indices, expected_reference_face) THEN continue
        ELSE LET orientation == (ref_color_idx - expected_ref_idx) % 3
                 inv_orientation == (3 - orientation) % 3
                 fallback == {o \in 0..2 : rotate(colors, o) = solved_colors}
             IN  IF rotate(colors, inv_orientation) = solved_colors
                 THEN [cubie |-> cubie_idx, orientation |-> orientation]
                 ELSE IF fallback # {}
                      THEN [cubie |-> cubie_idx,
                            orientation |-> CHOOSE o \in fallback : \A x \in fallback : o <= x]
                      ELSE continue

RECURSIVE find_corner_cubie_from(_, _, _, _)
find_corner_cubie_from(colors, face_indices, corner_pos, cubie_idx) ==
    IF cubie_idx = 8 THEN None
    ELSE LET r == corner_cubie_try(colors, face_indices, corner_pos, cubie_idx)
         IN  IF r = continue
             THEN find_corner_cubie_from(colors, face_indices, corner_pos, cubie_idx + 1)
             ELSE r

\* find_corner_cubie: the pair (cubie, orientation), or None for (None, None)
find_corner_cubie(colors, face_indices, corner_pos) ==
    find_corner_cubie_from(colors, face_indices, corner_pos, 0)

\* the body of the loop of find_edge_cubie for one cubie_idx
edge_cubie_try(colors, face_indices, edge_pos, cubie_idx) ==
    LET solved_colors == SOLVED_EDGE_COLORS[cubie_idx]
        reference_color == EDGE_REFERENCE_COLORS[cubie_idx]
        ref_color_idx == first_index(colors, reference_color)
        expected_reference_face == EDGE_POSITION_REFERENCE_FACES[edge_pos]
    IN  IF set_of(colors) # set_of(solved_colors) THEN continue
        ELSE IF ~found_in(colors, reference_color) THEN continue
        ELSE LET reference_face_current == face_indices[ref_color_idx]
                 orientation ==
                    IF reference_face_current = expected_reference_face THEN 0 ELSE 1
             IN  IF orientation = 0
                 THEN IF colors = solved_colors
                      THEN [cubie |-> cubie_idx, orientation |-> orientation]
                      ELSE IF colors = reversed(solved_colors)
                      THEN [cubie |-> cubie_idx, orientation |-> 1]
                      ELSE continue
                 ELSE IF colors = reversed(solved_colors)
                      THEN [cubie |-> cubie_idx, orientation |-> orientation]
                      ELSE IF colors = solved_colors
                      THEN [cubie |-> cubie_idx, orientation |-> 0]
                      ELSE continue

RECURSIVE find_edge_cubie_from(_, _, _, _)
find_edge_cubie_from(colors, face_indices, edge_pos, cubie_idx) ==
    IF cubie_idx = 12 THEN None
    ELSE LET r == edge_cubie_try(colors, face_indices, edge_pos, cubie_idx)
         IN  IF r = continue
             THEN find_edge_cubie_from(colors, face_indices, edge_pos, cubie_idx + 1)
             ELSE r

\* find_edge_cubie: the pair (cubie, orientation), or None for (None, None)
find_edge_cubie(colors, face_indices, edge_pos) ==
    find_edge_cubie_from(colors, face_indices, edge_pos, 0)

\* the colors and the faces read at the facets of a definition
read_colors(fs, definition) ==
    [i \in DOMAIN definition |-> FACE_COLORS[sticker(fs, definition[i])]]

read_faces(definition) == [i \in DOMAIN definition |-> definition[i][1]]

\* faces_to_cubie_state: the CubeState built from the cubies found, or
\* None when some position matches no cubie
faces_to_cubie_state(fs) ==
    LET corner ==
            [pos \in 0..7 |->
                find_corner_cubie(read_colors(fs, CORNER_DEFINITIONS[pos]),
                                  read_faces(CORNER_DEFINITIONS[pos]), pos)]
        edge ==
            [pos \in 0..11 |->
                find_edge_cubie(read_colors(fs, EDGE_DEFINITIONS[pos]),
                                read_faces(EDGE_DEFINITIONS[pos]), pos)]
    IN  IF \E pos \in 0..7 : corner[pos] = None THEN None
        ELSE IF \E pos \in 0..11 : edge[pos] = None THEN None
        ELSE CubeState([pos \in 0..7 |-> corner[pos].cubie],
                       [pos \in 0..7 |-> corner[pos].orientation],
                       [pos \in 0..11 |-> edge[pos].cubie],
                       [pos \in 0..11 |-> edge[pos].orientation])

----------------------------------------------------------------------------
(* pattern_databases.py                                                    *)

\* deepest BFS level the builds are followed to: the tables hold every
\* entry the build writes with a distance up to MaxBuildDepth
MaxBuildDepth == 2

\* np.inf, above every distance a table can hold
inf == 1000

\* ALL_MOVES, in the order of MOVE_NAMES
ALL_MOVES == [i \in 1..Len(MOVE_NAMES) |-> MOVE_TABLE[MOVE_NAMES[i]]]

RECURSIVE lehmer_encode_counts_larger(_, _, _, _)
\* the loop of lehmer_encode with "perm[j] > val_i" as its test
lehmer_encode_counts_larger(perm, i, index, factorial) ==
    IF i < 0 THEN index
    ELSE LET n == Cardinality(DOMAIN perm)
             val_i == perm[i]
             count == Cardinality({j \in (i + 1)..(n - 1) : perm[j] > val_i})
         IN  lehmer_encode_counts_larger(perm, i - 1, index + count * factorial,
                                         factorial * (n - i))

RECURSIVE lehmer_encode_from(_, _, _, _)
\* the loop of lehmer_encode at position i, with index and factorial so far
lehmer_encode_from(perm, i, index, factorial) ==
    IF i < 0 THEN index
    ELSE LET n == Cardinality(DOMAIN perm)
             val_i == perm[i]
             count == Cardinality({j \in (i + 1)..(n - 1) : perm[j] < val_i})
         IN  lehmer_encode_from(perm, i - 1, index + count * factorial,
                                factorial * (n - i))

\* lehmer_encode
lehmer_encode(perm) == lehmer_encode_from(perm, Cardinality(DOMAIN perm) - 1, 0, 1)

RECURSIVE math_factorial(_)
math_factorial(n) == IF n <= 1 THEN 1 ELSE n * math_factorial(n - 1)

\* list.pop(digit): the list without its element at digit
list_pop(a, digit) ==
    [i \in 0..(Cardinality(DOMAIN a) - 2) |-> IF i < digit THEN a[i] ELSE a[i + 1]]

RECURSIVE lehmer_decode_from(_, _, _, _, _, _)
\* the loop of lehmer_decode at position i
lehmer_decode_from(n, i, index, factorial, perm, res) ==
    IF i >= n - 1
    THEN IF DOMAIN perm # {} THEN [res EXCEPT ![n - 1] = perm[0]] ELSE res
    ELSE LET f == factorial
             digit == index \div f
         IN  lehmer_decode_from(n, i + 1, index % f,
                                IF n - 1 - i > 0 THEN factorial \div (n - 1 - i)
                                ELSE factorial,
                                list_pop(perm, digit),
                                [res EXCEPT ![i] = perm[digit]])

\* lehmer_decode
lehmer_decode(n, index) ==
    lehmer_decode_from(n, 0, index, math_factorial(n - 1), arange(n), zeros(n))

RECURSIVE encode_corner_orient_from(_, _, _, _)
encode_corner_orient_from(orient, i, index, power) ==
    IF i = 7 THEN index
    ELSE encode_corner_orient_from(orient, i + 1, index + orient[i] * power, power * 3)

\* encode_corner_orient
encode_corner_orient(orient) == encode_corner_orient_from(orient, 0, 0, 1)

RECURSIVE decode_corner_orient_from(_, _, _)
decode_corner_orient_from(orient, i, index) ==
    IF i = 7 THEN [orient EXCEPT ![7] = (3 - (SumTo(orient, 7) % 3)) % 3]
    ELSE decode_corner_orient_from([orient EXCEPT ![i] = index % 3], i + 1, index \div 3)

\* decode_corner_orient
decode_corner_orient(index) == decode_corner_orient_from(zeros(8), 0, index)

\* PatternDatabase.__init__: a table of the given size with every entry at
\* np.inf; pdb holds the entries written since
PatternDatabase(size) == [size |-> size, pdb |-> [x \in {} |-> 0]]

\* PatternDatabase.get
get(db, index) ==
    IF 0 <= index /\ index < db.size
    THEN IF index \in DOMAIN db.pdb THEN db.pdb[index] ELSE inf
    ELSE inf

\* CornerFullPDB.PERM_SIZE and ORIENT_SIZE
CORNER_PERM_SIZE == 40320
CORNER_ORIENT_SIZE == 2187

\* CornerFullPDB.abstract
corner_abstract(s) ==
    lehmer_encode(s.corner_perm) * CORNER_ORIENT_SIZE
        + encode_corner_orient(s.corner_orient)

\* CornerFullPDB.apply_move_to_abstract
apply_move_to_abstract(abstract_index, move) ==
    LET perm_index == abstract_index \div CORNER_ORIENT_SIZE
        orient_index == abstract_index % CORNER_ORIENT_SIZE
        corner_perm == lehmer_decode(8, perm_index)
        corner_orient == decode_corner_orient(orient_index)
        temp_corner_perm == [i \in 0..7 |-> corner_perm[move.corner_perm_inv[i]]]
        temp_corner_orient ==
            [i \in 0..7 |->
                (corner_orient[move.corner_perm_inv[i]] + move.corner_orient_delta[i]) % 3]
    IN  lehmer_encode(temp_corner_perm) * CORNER_ORIENT_SIZE
            + encode_corner_orient(temp_corner_orient)

\* CornerFullPDB.build up to its loop: the solved index written and queued
corner_build_start ==
    LET solved_index == corner_abstract(solved_state)
        db == PatternDatabase(CORNER_PERM_SIZE * CORNER_ORIENT_SIZE)
    IN  [size |-> db.size,
         pdb |-> (solved_index :> 0) @@ db.pdb,
         queue |-> <<[index |-> solved_index, dist |-> 0]>>,
         visited |-> {solved_index}]

\* the body of the "for move in ALL_MOVES" loop with its test of visited
\* left out: every rank reached is written and queued
corner_build_move_unvisited(b, abstract_index, dist, i) ==
    LET next_index == apply_move_to_abstract(abstract_index, ALL_MOVES[i])
    IN  [b EXCEPT !.visited = @ \cup {next_index},
                  !.pdb = (next_index :> dist + 1) @@ @,
                  !.queue = Append(@, [index |-> next_index, dist |-> dist + 1])]

\* the body of the "for move in ALL_MOVES" loop of CornerFullPDB.build at
\* move i
corner_build_move(b, abstract_index, dist, i) ==
    LET next_index == apply_move_to_abstract(abstract_index, ALL_MOVES[i])
    IN  IF next_index \notin b.visited
        THEN [b EXCEPT !.visited = @ \cup {next_index},
                       !.pdb = (next_index :> dist + 1) @@ @,
                       !.queue = Append(@, [index |-> next_index,
                                            dist |-> dist + 1])]
        ELSE b

RECURSIVE corner_build_moves(_, _, _, _)
\* the "for move in ALL_MOVES" loop of CornerFullPDB.build from move i on
corner_build_moves(b, abstract_index, dist, i) ==
    IF i > Len(ALL_MOVES) THEN b
    ELSE LET next_index == apply_move_to_abstract(abstract_index, ALL_MOVES[i])
         IN  IF next_index \notin b.visited
             THEN corner_build_moves(
                    corner_build_move(b, abstract_index, dist, i),
                    abstract_index, dist, i + 1)
             ELSE corner_build_moves(b, abstract_index, dist, i + 1)

\* one turn of "while queue" in CornerFullPDB.build
corner_build_pop(b) ==
    LET head == Head(b.queue)
    IN  corner_build_moves([b EXCEPT !.queue = Tail(@)], head.index, head.dist, 1)

RECURSIVE corner_build_while(_)
\* the loop of CornerFullPDB.build, followed while the entry popped is less
\* than MaxBuildDepth from solved
corner_build_while(b) ==
    IF b.queue = <<>> \/ Head(b.queue).dist >= MaxBuildDepth THEN b
    ELSE corner_build_while(corner_build_pop(b))

EDGE_SET_1_POSITIONS == Z(<<0, 1, 2, 3, 5, 6>>)
EDGE_SET_2_POSITIONS == Z(<<8, 9, 10, 11, 4, 7>>)

\* math.comb
math_comb(n, k) ==
    IF k < 0 \/ k > n THEN 0
    ELSE math_factorial(n) \div (math_factorial(k) * math_factorial(n - k))

\* _get_comb
get_comb(n, k) ==
    IF n < 0 \/ k < 0 \/ k > n THEN 0
    ELSE IF k = 0 \/ k = n THEN 1
    ELSE math_comb(n, k)

RECURSIVE sum_get_comb(_, _, _)
\* "for j in range(first): index += _get_comb(n - 1 - j, k - 1)"
sum_get_comb(n, k, first) ==
    IF first <= 0 THEN 0
    ELSE sum_get_comb(n, k, first - 1) + get_comb(n - 1 - (first - 1), k - 1)

\* a rank that stops after the least number of the combination
combination_index_of_first(combination, n, k) ==
    IF k = 0 THEN 0 ELSE sum_get_comb(n, k, combination[0])

RECURSIVE combination_index(_, _, _)
\* combination_index with start_idx at its default 0
combination_index(combination, n, k) ==
    IF k = 0 THEN 0
    ELSE LET first == combination[0]
             remaining == [i \in 0..(k - 2) |-> combination[1 + i] - first - 1]
         IN  sum_get_comb(n, k, first)
                + (IF k > 1 THEN combination_index(remaining, n - first - 1, k - 1)
                   ELSE 0)

\* list.sort() on a copy of a
sorted(a) ==
    [j \in DOMAIN a |->
        CHOOSE x \in {a[i] : i \in DOMAIN a} :
            /\ Cardinality({i \in DOMAIN a : a[i] < x}) <= j
            /\ j < Cardinality({i \in DOMAIN a : a[i] <= x})]

RECURSIVE orient_bits(_, _, _)
\* "if state.edge_orient[pos]: orient_index |= (1 << i)" for i below k
orient_bits(s, tracked_positions, k) ==
    IF k = 0 THEN 0
    ELSE orient_bits(s, tracked_positions, k - 1)
            + (IF s.edge_orient[tracked_positions[k - 1]] # 0 THEN 2 ^ (k - 1) ELSE 0)

\* encode_edge6_pattern
encode_edge6_pattern(s, tracked_positions) ==
    LET tracked_cubies == [i \in 0..5 |-> s.edge_perm[tracked_positions[i]]]
        sorted_cubies == sorted(tracked_cubies)
        perm_in_sorted == [i \in 0..5 |-> first_index(sorted_cubies, tracked_cubies[i])]
    IN  [which_edges |-> combination_index(sorted_cubies, 12, 6),
         perm_idx |-> lehmer_encode(perm_in_sorted),
         orient_idx |-> orient_bits(s, tracked_positions, 6)]

\* Edge6PDB.WHICH_EDGES_SIZE, PERM_SIZE and ORIENT_SIZE
WHICH_EDGES_SIZE == 924
EDGE_PERM_SIZE == 720
EDGE_ORIENT_SIZE == 64

\* Edge6PDB.abstract
edge6_abstract(s, tracked_positions) ==
    LET e == encode_edge6_pattern(s, tracked_positions)
    IN  e.which_edges * EDGE_PERM_SIZE * EDGE_ORIENT_SIZE
            + e.perm_idx * EDGE_ORIENT_SIZE + e.orient_idx

\* Edge6PDB.build up to its loop
edge6_build_start(tracked_positions) ==
    LET solved_index == edge6_abstract(solved_state, tracked_positions)
        db == PatternDatabase(WHICH_EDGES_SIZE * EDGE_PERM_SIZE * EDGE_ORIENT_SIZE)
    IN  [size |-> db.size,
         pdb |-> IF solved_index < db.size THEN (solved_index :> 0) @@ db.pdb
                 ELSE db.pdb,
         tracked_positions |-> tracked_positions,
         queue |-> <<[state |-> solved_state, dist |-> 0]>>,
         visited |-> IF solved_index < db.size THEN {solved_index} ELSE {}]

\* the body of the "for move in ALL_MOVES" loop of Edge6PDB.build at move
\* i: the move is applied to working_state and the rank looked up
edge6_build_move(b, working_state, dist, i) ==
    LET moved == apply_in_place(ALL_MOVES[i], working_state)
        abstract_index == edge6_abstract(moved, b.tracked_positions)
    IN  IF abstract_index < b.size /\ abstract_index \notin b.visited
        THEN [b EXCEPT !.visited = @ \cup {abstract_index},
                       !.pdb = (abstract_index :> dist + 1) @@ @,
                       !.queue = Append(@, [state |-> moved, dist |-> dist + 1])]
        ELSE b

\* working_state at the end of the body: move i applied, then
\* MOVE_INVERSE_TABLE[move] applied
edge6_build_undo(working_state, i) ==
    apply_in_place(MOVE_INVERSE_TABLE[ALL_MOVES[i].name],
                   apply_in_place(ALL_MOVES[i], working_state))

RECURSIVE edge6_build_moves(_, _, _, _)
\* the "for move in ALL_MOVES" loop of Edge6PDB.build from move i on
edge6_build_moves(b, working_state, dist, i) ==
    IF i > Len(ALL_MOVES) THEN b
    ELSE LET moved == apply_in_place(ALL_MOVES[i], working_state)
             abstract_index == edge6_abstract(moved, b.tracked_positions)
             undone == apply_in_place(MOVE_INVERSE_TABLE[ALL_MOVES[i].name], moved)
         IN  IF abstract_index < b.size /\ abstract_index \notin b.visited
             THEN edge6_build_moves(
                    edge6_build_move(b, working_state, dist, i),
                    undone, dist, i + 1)
             ELSE edge6_build_moves(b, undone, dist, i + 1)

\* one turn of "while queue" in Edge6PDB.build
edge6_build_pop(b) ==
    LET head == Head(b.queue)
    IN  edge6_build_moves([b EXCEPT !.queue = Tail(@)], head.state, head.dist, 1)

RECURSIVE edge6_build_while(_)
\* the loop of Edge6PDB.build, followed while the state popped is less than
\* MaxBuildDepth from solved
edge6_build_while(b) ==
    IF b.queue = <<>> \/ Head(b.queue).dist >= MaxBuildDepth THEN b
    ELSE edge6_build_while(edge6_build_pop(b))

RECURSIVE corner_build_turns(_, _)
\* n turns of "while queue" in CornerFullPDB.build, or as many as the queue
\* lasts for
corner_build_turns(b, n) ==
    IF n = 0 \/ b.queue = <<>> THEN b
    ELSE IF n = 1 THEN corner_build_pop(b)
    ELSE corner_build_turns(corner_build_turns(b, n \div 2), n - n \div 2)

RECURSIVE corner_build_levels(_, _)
\* the loop of CornerFullPDB.build, followed while the entry popped is less
\* than depth from solved: the queue holds one level at a time
corner_build_levels(b, depth) ==
    IF b.queue = <<>> \/ Head(b.queue).dist >= depth THEN b
    ELSE corner_build_levels(corner_build_turns(b, Len(b.queue)), depth)

RECURSIVE edge6_build_turns(_, _)
\* n turns of "while queue" in Edge6PDB.build, or as many as the queue lasts
\* for
edge6_build_turns(b, n) ==
    IF n = 0 \/ b.queue = <<>> THEN b
    ELSE IF n = 1 THEN edge6_build_pop(b)
    ELSE edge6_build_turns(edge6_build_turns(b, n \div 2), n - n \div 2)

RECURSIVE edge6_build_levels(_, _)
\* the loop of Edge6PDB.build, followed while the state popped is less than
\* depth from solved
edge6_build_levels(b, depth) ==
    IF b.queue = <<>> \/ Head(b.queue).dist >= depth THEN b
    ELSE edge6_build_levels(edge6_build_turns(b, Len(b.queue)), depth)

\* build_korf_pdbs: the three tables, built (no cache file exists); levels is
\* the number of levels the builds were followed for
build_korf_pdbs(cache_dir) ==
    LET corner == corner_build_while(corner_build_start)
        edge6a == edge6_build_while(edge6_build_start(EDGE_SET_1_POSITIONS))
        edge6b == edge6_build_while(edge6_build_start(EDGE_SET_2_POSITIONS))
    IN  [corner_pdb |-> [size |-> corner.size, pdb |-> corner.pdb],
         edge6a_pdb |-> [size |-> edge6a.size, pdb |-> edge6a.pdb,
                         tracked_positions |-> edge6a.tracked_positions],
         edge6b_pdb |-> [size |-> edge6b.size, pdb |-> edge6b.pdb,
                         tracked_positions |-> edge6b.tracked_positions],
         levels |-> MaxBuildDepth]

\* levels of each build that the tables of the longer build hold
MaxDeepLevels == 3

\* turns of "while queue" past those levels in the build of the first edge
\* table
MaxDeepTurns == 826

\* build_korf_pdbs with the builds followed further
build_korf_pdbs_deep(cache_dir) ==
    LET corner == corner_build_levels(corner_build_start, MaxDeepLevels)
        edge6a == edge6_build_turns(
                    edge6_build_levels(edge6_build_start(EDGE_SET_1_POSITIONS),
                                       MaxDeepLevels),
                    MaxDeepTurns)
        edge6b == edge6_build_levels(edge6_build_start(EDGE_SET_2_POSITIONS),
                                     MaxDeepLevels)
    IN  [corner_pdb |-> [size |-> corner.size, pdb |-> corner.pdb],
         edge6a_pdb |-> [size |-> edge6a.size, pdb |-> edge6a.pdb,
                         tracked_positions |-> edge6a.tracked_positions],
         edge6b_pdb |-> [size |-> edge6b.size, pdb |-> edge6b.pdb,
                         tracked_positions |-> edge6b.tracked_positions],
         levels |-> MaxDeepLevels]

----------------------------------------------------------------------------
(* heuristics.py                                                           *)

\* Heuristic.__init__ with no tables passed in
Heuristic(cache_dir) == build_korf_pdbs(cache_dir)

\* Heuristic.h_corner
h_corner(s) == get(heuristic.corner_pdb, corner_abstract(s))

\* Heuristic.h_edge6a
h_edge6a(s) ==
    get(heuristic.edge6a_pdb,
        edge6_abstract(s, heuristic.edge6a_pdb.tracked_positions))

\* Heuristic.h_edge6b
h_edge6b(s) ==
    get(heuristic.edge6b_pdb,
        edge6_abstract(s, heuristic.edge6b_pdb.tracked_positions))

\* max(a, b): the third lookup left out
max3_first_two(a, b, c) == IF a >= b THEN a ELSE b

\* max(a, b, c)
max3(a, b, c) ==
    IF a >= b /\ a >= c THEN a ELSE IF b >= c THEN b ELSE c

\* Heuristic.h
h(s) == max3(h_corner(s), h_edge6a(s), h_edge6b(s))

----------------------------------------------------------------------------
(* States a caller can construct: CubeState(...) accepts any four arrays.  *)

\* the array a with a[i] replaced by v
Overwrite(a, i, v) == [a EXCEPT ![i] = v]

\* the array a with the entries at i and j exchanged
Swap(a, i, j) == [a EXCEPT ![i] = a[j], ![j] = a[i]]

\* a valid state far from solved
Scrambled ==
    apply_moves(solved_state,
                <<"R", "U", "F'", "L2", "D", "B'", "R2", "U'", "F", "L">>).state

\* one corner twisted in place: violates the corner orientation sum
TwistedCorner == [solved_state EXCEPT !.corner_orient = Overwrite(zeros(8), 0, 1)]

\* one edge flipped in place: violates the edge orientation sum
FlippedEdge == [solved_state EXCEPT !.edge_orient = Overwrite(zeros(12), 5, 1)]

\* two corners exchanged: corner and edge parity differ
SwappedCorners == [solved_state EXCEPT !.corner_perm = Swap(arange(8), 2, 6)]

\* permutations and orientations with none of the invariants holding
Unrealizable ==
    CubeState(Z(<<3, 0, 1, 2, 4, 6, 5, 7>>), Z(<<1, 2, 2, 0, 1, 0, 2, 2>>),
              Z(<<1, 0, 3, 2, 5, 4, 6, 7, 9, 10, 8, 11>>),
              Z(<<1, 0, 1, 1, 0, 0, 0, 1, 0, 1, 0, 0>>))

WalkStarts ==
    {solved_state, Scrambled, TwistedCorner, FlippedEdge, SwappedCorners, Unrealizable}

----------------------------------------------------------------------------
(* Spec: moves applied one after another with Move.apply, as scramble()    *)
(* and the tests do, from a state the caller constructed.                  *)

Init ==
    /\ initial_state \in WalkStarts
    /\ state = initial_state
    /\ path = <<>>
    /\ move_names = <<>>
    /\ outcome = "walk"
    /\ CodecIdle
    /\ TablesIdle
    /\ SearchIdle

\* current_state = MOVE_TABLE[move_name].apply(current_state)
Turn(n) ==
    /\ outcome = "walk"
    /\ Len(path) < MaxMoves
    /\ state' = apply(MOVE_TABLE[n], state)
    /\ path' = Append(path, n)
    /\ UNCHANGED <<initial_state, move_names, outcome, codecVars,
                   searchVars, tableVars>>

Next == \E n \in MoveNameSet : Turn(n)

Spec == Init /\ [][Next]_vars

----------------------------------------------------------------------------
(* SpecApply: one call apply_moves(initial_state, move_names), a step per  *)
(* iteration of its loop.                                                  *)

RECURSIVE SeqsUpTo(_, _)
\* all sequences over S of length at most k
SeqsUpTo(S, k) ==
    IF k = 0 THEN {<<>>}
    ELSE LET shorter == SeqsUpTo(S, k - 1)
         IN  shorter \cup {Append(q, x) : q \in shorter, x \in S}

RECURSIVE Repeat(_, _)
\* the sequence q repeated k times
Repeat(q, k) == IF k = 0 THEN <<>> ELSE q \o Repeat(q, k - 1)

\* the sequence of test_move_sequence
URUpRp == <<"U", "R", "U'", "R'">>

\* R U R' U'
SexyMove == <<"R", "U", "R'", "U'">>

\* names that are not among the 18
UnknownNames == {"X", "u"}

Scripts ==
    {URUpRp, URUpRp \o <<"R", "U", "R'", "U'">>}
    \cup {Repeat(SexyMove, k) : k \in 1..6}
    \cup {<<"U", "R", "X", "F">>}

ApplyInputs == SeqsUpTo(MoveNameSet \cup UnknownNames, MaxNames) \cup Scripts

\* the call after "current_state = state.copy()": state is current_state,
\* other_state the object the caller passed in
InitApply ==
    /\ initial_state \in {solved_state, Scrambled}
    /\ state = initial_state
    /\ other_state = initial_state
    /\ path = <<>>
    /\ move_names \in ApplyInputs
    /\ outcome = "running"
    /\ CodecIdle
    /\ permutation = <<>>
    /\ lehmer_index = 0
    /\ edge6_index = <<>>
    /\ decoded_perm = <<>>
    /\ pdb_build = <<>>
    /\ written = <<>>
    /\ SearchIdle

\* a loop body without its else branch: a name that is not in MOVE_TABLE
\* is passed over
ApplyNext_skips_unknown ==
    /\ outcome = "running"
    /\ Len(path) < Len(move_names)
    /\ LET move_name == move_names[Len(path) + 1]
       IN  /\ state' = IF move_name \in DOMAIN MOVE_TABLE
                       THEN apply(MOVE_TABLE[move_name], state)
                       ELSE state
           /\ path' = Append(path, move_name)
           /\ UNCHANGED outcome
    /\ UNCHANGED <<initial_state, move_names, codecVars, searchVars,
                   tableVars>>

\* one iteration of the for loop of apply_moves.  Move.apply works on a
\* copy of current_state, itself a copy: the caller's object is not written
ApplyNext ==
    /\ outcome = "running"
    /\ Len(path) < Len(move_names)
    /\ LET move_name == move_names[Len(path) + 1]
       IN  IF move_name \in DOMAIN MOVE_TABLE
           THEN /\ state' = apply(MOVE_TABLE[move_name], state)
                /\ path' = Append(path, move_name)
                /\ UNCHANGED outcome
           ELSE /\ outcome' = "ValueError"
                /\ UNCHANGED <<state, path>>
    /\ UNCHANGED <<initial_state, move_names, codecVars, searchVars,
                   tableVars>>

\* the loop is over: return current_state
ApplyReturn ==
    /\ outcome = "running"
    /\ Len(path) = Len(move_names)
    /\ outcome' = "returned"
    /\ UNCHANGED <<state, initial_state, path, move_names, codecVars,
                   searchVars, tableVars>>

NextApply == ApplyNext \/ ApplyReturn

SpecApply == InitApply /\ [][NextApply]_vars

----------------------------------------------------------------------------
(* SpecValid: one call of is_valid() on a state built by the constructor   *)
(* from caller-supplied arrays (the decoder builds states this way).       *)

CornerPermArrays ==
    {Overwrite(arange(8), i, v) : i \in 0..7, v \in 0..7}
    \cup {Swap(arange(8), i, j) : i \in 0..7, j \in 0..7}
    \cup {Z(<<1, 2, 0, 3, 4, 5, 6, 7>>)}

EdgePermArrays ==
    {arange(12), Swap(arange(12), 0, 1), Overwrite(arange(12), 3, 4),
     Z(<<0, 1, 2, 3, 5, 6, 4, 7, 8, 9, 10, 11>>)}

CornerOrientArrays ==
    {zeros(8), Overwrite(zeros(8), 0, 1), Overwrite(Overwrite(zeros(8), 0, 1), 7, 2),
     Overwrite(Overwrite(zeros(8), 2, 2), 3, 2)}

EdgeOrientArrays ==
    {zeros(12), Overwrite(zeros(12), 0, 1), Overwrite(Overwrite(zeros(12), 0, 1), 11, 1)}

InitValid ==
    /\ state \in {CubeState(cp, co, ep, eo) :
                    cp \in CornerPermArrays, co \in CornerOrientArrays,
                    ep \in EdgePermArrays, eo \in EdgeOrientArrays}
    /\ initial_state = state
    /\ path = <<>>
    /\ move_names = <<>>
    /\ outcome = "unchecked"
    /\ CodecIdle
    /\ TablesIdle
    /\ SearchIdle

\* state.is_valid() is called and its result kept
CheckValid ==
    /\ outcome = "unchecked"
    /\ outcome' = IF is_valid(state) THEN "valid" ELSE "invalid"
    /\ UNCHANGED <<state, initial_state, path, move_names, codecVars,
                   searchVars, tableVars>>

NextValid == CheckValid

SpecValid == InitValid /\ [][NextValid]_vars

----------------------------------------------------------------------------
(* The converter in use: a cube state is rendered on the grid, the user    *)
(* may repaint facelets, the grid is read back and rendered again          *)

\* most facelets repainted in one session
MaxPaints == 1

\* the facelets the user clicks: those of corner URF and of edge UF, and
\* the center of the U face
ClickFacelets ==
    {CORNER_DEFINITIONS[2][i] : i \in 0..2}
        \cup {EDGE_DEFINITIONS[0][i] : i \in 0..1} \cup {<<U, 1, 1>>}

\* the states rendered: solved, one turn from solved, a scramble, and the
\* states a caller can construct that no cube can show
CodecStates ==
    {solved_state, Scrambled, TwistedCorner, FlippedEdge, SwappedCorners, Unrealizable}
        \cup {apply(MOVE_TABLE[n], solved_state) : n \in MoveNameSet}

InitCodec ==
    /\ state \in CodecStates
    /\ initial_state = state
    /\ path = <<>>
    /\ move_names = <<>>
    /\ outcome = "state"
    /\ CodecIdle
    /\ TablesIdle
    /\ SearchIdle

\* CubeVisualizer.from_cube_state(state)
from_cube_state ==
    /\ outcome = "state"
    /\ faces' = cubie_state_to_faces(state)
    /\ outcome' = "shown"
    /\ UNCHANGED <<state, initial_state, path, move_names, painted, decoded,
                   refaces, searchVars, tableVars>>

\* CubeGUI.on_canvas_click with the picker on color_code
on_canvas_click(facelet, color_code) ==
    /\ outcome = "shown"
    /\ painted < MaxPaints
    /\ faces' = [faces EXCEPT ![facelet[1]][facelet[2]][facelet[3]] = color_code]
    /\ painted' = painted + 1
    /\ UNCHANGED <<state, initial_state, path, move_names, outcome, decoded,
                   refaces, searchVars, tableVars>>

\* CubeVisualizer.to_cube_state()
to_cube_state ==
    /\ outcome = "shown"
    /\ decoded' = faces_to_cubie_state(faces)
    /\ outcome' = "decoded"
    /\ UNCHANGED <<state, initial_state, path, move_names, faces, painted,
                   refaces, searchVars, tableVars>>

\* cubie_state_to_faces of the state read back
render_decoded ==
    /\ outcome = "decoded"
    /\ decoded # None
    /\ refaces' = cubie_state_to_faces(decoded)
    /\ outcome' = "rendered"
    /\ UNCHANGED <<state, initial_state, path, move_names, faces, painted,
                   decoded, searchVars, tableVars>>

NextCodec ==
    \/ from_cube_state
    \/ \E facelet \in ClickFacelets, color_code \in DOMAIN FACE_COLORS :
            on_canvas_click(facelet, color_code)
    \/ to_cube_state
    \/ render_decoded

SpecCodec == InitCodec /\ [][NextCodec]_vars

----------------------------------------------------------------------------
(* The heuristic in use: a scramble is applied to the solved cube and      *)
(* Heuristic.h is evaluated on the result                                  *)

InitHeuristic ==
    /\ heuristic = Heuristic("pdb_cache")
    /\ move_names \in SeqsUpTo(MoveNameSet, MaxMoves)
    /\ initial_state = solved_state
    /\ state = apply_moves(solved_state, move_names).state
    /\ path = <<>>
    /\ outcome = "scrambled"
    /\ CodecIdle
    /\ TablesIdle
    /\ SolverIdle

\* heuristic.h(state)
evaluate_h ==
    /\ outcome = "scrambled"
    /\ h_value' = h(state)
    /\ outcome' = "evaluated"
    /\ UNCHANGED <<state, initial_state, path, move_names, codecVars,
                   heuristic, solveVars, tableVars>>

NextHeuristic == evaluate_h

SpecHeuristic == InitHeuristic /\ [][NextHeuristic]_vars

----------------------------------------------------------------------------
(* search.py: IDAStar.solve and the recursion of IDAStar._search, one      *)
(* step per entry into a node, per move tried and per return               *)

\* max_depth, the length of the path buffer
max_depth == 50

\* FAIL
FAIL == [fail |-> TRUE]

\* longest scramble handed to the solver
MaxScramble == 2

\* the moves the scrambles are made of
ScrambleNames == {"U", "R'", "F2", "L"}

\* the values of max_iterations the solver is called with
IterationLimits == {0, 1, 2, 50}

\* a scramble that swaps the opposite edges of the U layer and leaves all
\* else in place
HPerm == <<"R2", "U2", "R", "U2", "R2", "U2", "R2", "U2", "R", "U2", "R2">>

\* the scrambles handed to the solver: the short ones over ScrambleNames,
\* each single move, U R and HPerm
SolverScrambles ==
    SeqsUpTo(ScrambleNames, MaxScramble)
        \cup {<<name>> : name \in MoveNameSet}
        \cup {<<"U", "R">>, HPerm}

\* g + h counted one too high
plus_one_more(g, hv) == IF hv = inf THEN inf ELSE g + hv + 1

\* g + h, with np.inf absorbing
plus(g, hv) == IF hv = inf THEN inf ELSE g + hv

\* path[:path_len - 1], a slice that loses the last move
path_slice_one_short(buf, path_len) ==
    [i \in 1..(IF path_len > 0 THEN path_len - 1 ELSE 0) |-> buf[i - 1]]

\* path[:path_len][::-1], the moves in the order they are undone
path_slice_reversed(buf, path_len) ==
    [i \in 1..path_len |-> buf[path_len - i]]

\* path[:path_len]
path_slice(buf, path_len) == [i \in 1..path_len |-> buf[i - 1]]

\* the frame of a call of _search: its arguments, the move its loop is at
\* and min_overflow
Frame(g, last_move_name, path_len) ==
    [g |-> g, last_move_name |-> last_move_name, path_len |-> path_len,
     move |-> 0, min_overflow |-> inf]

\* the test for the inverse alone, the test of the face left out
pruned_inverse_only(last_move_name, name) ==
    /\ last_move_name # "None"
    /\ name = MOVE_INVERSES[last_move_name]

\* "if last_move_name and move.name == MOVE_INVERSES.get(last_move_name)"
\* or the move is on the face of the last move: the loop skips it
pruned(last_move_name, name) ==
    /\ last_move_name # "None"
    /\ \/ name = MOVE_INVERSES[last_move_name]
       \/ MOVE_TO_FACE[name] = MOVE_TO_FACE[last_move_name]

InitSearch ==
    /\ heuristic = Heuristic("pdb_cache")
    /\ move_names \in SolverScrambles
    /\ initial_state = apply_moves(solved_state, move_names).state
    /\ state = initial_state
    /\ path = <<>>
    /\ outcome = "ready"
    /\ CodecIdle
    /\ TablesIdle
    /\ h_value = 0
    /\ max_iterations \in IterationLimits
    /\ threshold = 0
    /\ iteration = 0
    /\ stack = <<>>
    /\ returned = <<>>
    /\ result = <<>>
    /\ unknown_from = inf
    /\ cut_off = {}
    /\ nodes_expanded = 0
    /\ max_depth_reached = 0

\* solve up to its loop: the initial threshold and the path buffer.  A
\* rank the build has not reached within MaxBuildDepth has a distance the
\* tables of the model do not hold, and the call is not followed further.
solve_begin ==
    /\ outcome = "ready"
    /\ nodes_expanded' = 0
    /\ max_depth_reached' = 0
    /\ LET h0 == h(initial_state)
       IN  IF h0 = inf
           THEN /\ outcome' = "beyond"
                /\ UNCHANGED <<threshold, path>>
           ELSE /\ threshold' = h0
                /\ path' = [i \in 0..(max_depth - 1) |-> "None"]
                /\ outcome' = "iterate"
    /\ UNCHANGED <<state, initial_state, move_names, codecVars, heuristic,
                   h_value, max_iterations, iteration, stack, returned,
                   result, unknown_from, cut_off, tableVars>>

\* a loop head that runs range(max_iterations + 1)
solve_iterate_one_more ==
    /\ outcome = "iterate"
    /\ IF iteration <= max_iterations
       THEN /\ state' = initial_state
            /\ stack' = <<Frame(0, "None", 0)>>
            /\ unknown_from' = inf
            /\ cut_off' = {}
            /\ outcome' = "enter"
       ELSE /\ outcome' = "none"
            /\ UNCHANGED <<state, stack, unknown_from, cut_off>>
    /\ UNCHANGED <<initial_state, path, move_names, codecVars, heuristic,
                   h_value, max_iterations, threshold, iteration, returned,
                   result, nodes_expanded, max_depth_reached, tableVars>>

\* the head of "for iteration in range(max_iterations)": a fresh copy of the
\* initial state and the root call of _search, or the return after the loop
solve_iterate ==
    /\ outcome = "iterate"
    /\ IF iteration < max_iterations
       THEN /\ state' = initial_state
            /\ stack' = <<Frame(0, "None", 0)>>
            /\ unknown_from' = inf
            /\ cut_off' = {}
            /\ outcome' = "enter"
       ELSE /\ outcome' = "none"
            /\ UNCHANGED <<state, stack, unknown_from, cut_off>>
    /\ UNCHANGED <<initial_state, path, move_names, codecVars, heuristic,
                   h_value, max_iterations, threshold, iteration, returned,
                   result, nodes_expanded, max_depth_reached, tableVars>>

\* _search from its entry to its loop: the bound check and the goal check.
\* A node whose rank the tables of the model do not hold is cut off when
\* every distance above the levels built puts it over the threshold.
search_enter ==
    /\ outcome = "enter"
    /\ LET fr == stack[Len(stack)]
           hv == h(state)
           f == plus(fr.g, hv)
       IN  /\ nodes_expanded' = nodes_expanded + 1
           /\ max_depth_reached' =
                IF fr.path_len > max_depth_reached THEN fr.path_len
                ELSE max_depth_reached
           /\ IF hv = inf /\ fr.g + heuristic.levels + 1 <= threshold
              THEN /\ outcome' = "beyond"
                   /\ UNCHANGED <<stack, returned, unknown_from, cut_off>>
              ELSE IF f > threshold
              THEN /\ returned' = [is_list |-> FALSE, result |-> FAIL, next_threshold |-> f]
                   /\ stack' = SubSeq(stack, 1, Len(stack) - 1)
                   /\ unknown_from' =
                        IF hv = inf /\ fr.g + heuristic.levels + 1 < unknown_from
                        THEN fr.g + heuristic.levels + 1 ELSE unknown_from
                   /\ cut_off' = cut_off \cup {f}
                   /\ outcome' = "return"
              ELSE IF is_solved(state)
              THEN /\ returned' = [is_list |-> TRUE,
                                   result |-> path_slice(path, fr.path_len),
                                   next_threshold |-> threshold]
                   /\ stack' = SubSeq(stack, 1, Len(stack) - 1)
                   /\ outcome' = "return"
                   /\ UNCHANGED <<unknown_from, cut_off>>
              ELSE /\ stack' = [stack EXCEPT ![Len(stack)].move = 1,
                                             ![Len(stack)].min_overflow = inf]
                   /\ outcome' = "loop"
                   /\ UNCHANGED <<returned, unknown_from, cut_off>>
    /\ UNCHANGED <<state, initial_state, path, move_names, codecVars,
                   heuristic, h_value, max_iterations, threshold, iteration,
                   result, tableVars>>

\* "for move in ALL_MOVES" of _search at the move the frame is at: the move
\* is skipped, or applied in place, written to the path buffer and searched;
\* past the last move the call returns FAIL and min_overflow
search_loop ==
    /\ outcome = "loop"
    /\ LET fr == stack[Len(stack)]
       IN  IF fr.move > Len(ALL_MOVES)
           THEN /\ returned' = [is_list |-> FALSE, result |-> FAIL,
                                next_threshold |-> fr.min_overflow]
                /\ stack' = SubSeq(stack, 1, Len(stack) - 1)
                /\ outcome' = "return"
                /\ UNCHANGED <<state, path>>
           ELSE IF pruned(fr.last_move_name, ALL_MOVES[fr.move].name)
           THEN /\ stack' = [stack EXCEPT ![Len(stack)].move = @ + 1]
                /\ UNCHANGED <<state, path, returned, outcome>>
           ELSE IF fr.path_len >= max_depth
           THEN /\ outcome' = "IndexError"
                /\ state' = apply_in_place(ALL_MOVES[fr.move], state)
                /\ UNCHANGED <<path, stack, returned>>
           ELSE /\ state' = apply_in_place(ALL_MOVES[fr.move], state)
                /\ path' = [path EXCEPT ![fr.path_len] = ALL_MOVES[fr.move].name]
                /\ stack' = Append(stack, Frame(fr.g + 1, ALL_MOVES[fr.move].name,
                                                fr.path_len + 1))
                /\ outcome' = "enter"
                /\ UNCHANGED returned
    /\ UNCHANGED <<initial_state, move_names, codecVars, heuristic, h_value,
                   max_iterations, threshold, iteration, result,
                   unknown_from, cut_off, nodes_expanded, max_depth_reached,
                   tableVars>>

\* the return of a recursive call with "min_overflow = next_threshold" in
\* place of the comparison: the overflow of the last child is kept
search_return_last_overflow ==
    /\ outcome = "return"
    /\ stack # <<>>
    /\ LET fr == stack[Len(stack)]
           move == ALL_MOVES[fr.move]
       IN  /\ state' = apply_in_place(MOVE_INVERSE_TABLE[move.name], state)
           /\ IF returned.is_list
              THEN /\ returned' = [is_list |-> TRUE, result |-> returned.result,
                                   next_threshold |-> threshold]
                   /\ stack' = SubSeq(stack, 1, Len(stack) - 1)
                   /\ UNCHANGED outcome
              ELSE /\ stack' =
                        [stack EXCEPT
                            ![Len(stack)].move = @ + 1,
                            ![Len(stack)].min_overflow = returned.next_threshold]
                   /\ outcome' = "loop"
                   /\ UNCHANGED returned
    /\ UNCHANGED <<initial_state, path, move_names, codecVars, heuristic,
                   h_value, max_iterations, threshold, iteration, result,
                   unknown_from, cut_off, nodes_expanded, max_depth_reached,
                   tableVars>>

\* the return of a recursive call into the loop of its caller: the move is
\* undone, a solution is passed up, a FAIL lowers min_overflow
search_return ==
    /\ outcome = "return"
    /\ stack # <<>>
    /\ LET fr == stack[Len(stack)]
           move == ALL_MOVES[fr.move]
       IN  /\ state' = apply_in_place(MOVE_INVERSE_TABLE[move.name], state)
           /\ IF returned.is_list
              THEN /\ returned' = [is_list |-> TRUE, result |-> returned.result,
                                   next_threshold |-> threshold]
                   /\ stack' = SubSeq(stack, 1, Len(stack) - 1)
                   /\ UNCHANGED outcome
              ELSE /\ stack' =
                        [stack EXCEPT
                            ![Len(stack)].move = @ + 1,
                            ![Len(stack)].min_overflow =
                                IF returned.next_threshold < @
                                THEN returned.next_threshold ELSE @]
                   /\ outcome' = "loop"
                   /\ UNCHANGED returned
    /\ UNCHANGED <<initial_state, path, move_names, codecVars, heuristic,
                   h_value, max_iterations, threshold, iteration, result,
                   unknown_from, cut_off, nodes_expanded, max_depth_reached,
                   tableVars>>

\* the return of the root call into solve: the solution is returned, or
\* None when nothing went over the threshold, or the threshold is raised.
\* When a node cut off for a rank the tables of the model do not hold may
\* have the smallest f, the next threshold is not known and the call is not
\* followed further.
solve_return ==
    /\ outcome = "return"
    /\ stack = <<>>
    /\ IF returned.is_list
       THEN /\ result' = returned.result
            /\ outcome' = "solution"
            /\ UNCHANGED <<threshold, iteration>>
       ELSE IF unknown_from < returned.next_threshold
       THEN /\ outcome' = "beyond"
            /\ UNCHANGED <<result, threshold, iteration>>
       ELSE IF returned.next_threshold = inf
       THEN /\ outcome' = "none"
            /\ UNCHANGED <<result, threshold, iteration>>
       ELSE /\ threshold' = returned.next_threshold
            /\ iteration' = iteration + 1
            /\ outcome' = "iterate"
            /\ UNCHANGED result
    /\ UNCHANGED <<state, initial_state, path, move_names, codecVars,
                   heuristic, h_value, max_iterations, stack, returned,
                   unknown_from, cut_off, nodes_expanded, max_depth_reached,
                   tableVars>>

NextSearch ==
    \/ solve_begin
    \/ solve_iterate
    \/ search_enter
    \/ search_loop
    \/ search_return
    \/ solve_return

SpecSearch == InitSearch /\ [][NextSearch]_vars

\* solve has ended: it returned a solution or None, or the call went to a
\* table entry that the builds write after MaxBuildDepth levels
solve_ended == outcome \in {"solution", "none", "beyond"}

\* the call runs on: the interpreter takes the next step whenever there is
\* one.  This is WF_vars(NextSearch) with ENABLED <<NextSearch>>_vars
\* written as ~solve_ended: every action of NextSearch is guarded by one
\* value of outcome other than the three final ones, its guards cover the
\* cases of that value, and it assigns outcome another value.
SpecSearchFair ==
    SpecSearch /\ ([]<>solve_ended \/ []<><<NextSearch>>_vars)

\* scrambles whose entry in the first edge table the build writes at its
\* fourth level, and one that every table holds at its first
DeepScrambles == {<<"D2", "R2">>, <<"R2">>}

\* IDAStar() and solve(initial_state) with the tables of the longer build
InitSearchDeep ==
    /\ heuristic = build_korf_pdbs_deep("pdb_cache")
    /\ move_names \in DeepScrambles
    /\ initial_state = apply_moves(solved_state, move_names).state
    /\ state = initial_state
    /\ path = <<>>
    /\ outcome = "ready"
    /\ CodecIdle
    /\ TablesIdle
    /\ h_value = 0
    /\ max_iterations = 50
    /\ threshold = 0
    /\ iteration = 0
    /\ stack = <<>>
    /\ returned = <<>>
    /\ result = <<>>
    /\ unknown_from = inf
    /\ cut_off = {}
    /\ nodes_expanded = 0
    /\ max_depth_reached = 0

SpecSearchDeep == InitSearchDeep /\ [][NextSearch]_vars

----------------------------------------------------------------------------
(* The abstractions of the three tables under the moves: two states are    *)
(* ranked, the same move is applied to both, and both are ranked again     *)

\* longest scramble behind a state that is ranked
MaxRanked == 1

\* the states that are ranked
RankedStates ==
    {apply_moves(solved_state, q).state : q \in SeqsUpTo(MoveNameSet, MaxRanked)}

\* CornerFullPDB.abstract and Edge6PDB.abstract of the two edge tables
ranks(s) ==
    [corner |-> corner_abstract(s),
     edge6a |-> edge6_abstract(s, EDGE_SET_1_POSITIONS),
     edge6b |-> edge6_abstract(s, EDGE_SET_2_POSITIONS)]

InitAbstract ==
    /\ state \in RankedStates
    /\ other_state \in RankedStates
    /\ initial_state = state
    /\ path = <<>>
    /\ move_names = <<>>
    /\ outcome = "ranked"
    /\ CodecIdle
    /\ SearchIdle
    /\ permutation = <<>> /\ lehmer_index = 0 /\ decoded_perm = <<>>
    /\ pdb_build = <<>> /\ written = <<>>
    /\ edge6_index = <<>>

\* MOVE_TABLE[name].apply on each of the two states
apply_to_both(name) ==
    /\ outcome = "ranked"
    /\ state' = apply(MOVE_TABLE[name], state)
    /\ other_state' = apply(MOVE_TABLE[name], other_state)
    /\ path' = Append(path, name)
    /\ outcome' = "moved"
    /\ UNCHANGED <<initial_state, move_names, codecVars, searchVars,
                   permutation, lehmer_index, decoded_perm, pdb_build, written,
                   edge6_index>>

NextAbstract == \E name \in MoveNameSet : apply_to_both(name)

SpecAbstract == InitAbstract /\ [][NextAbstract]_vars

----------------------------------------------------------------------------
(* SpecLehmer: lehmer_encode on a permutation of 0..n-1, then              *)
(* lehmer_decode on the rank it returned.                                  *)

\* the longest list ranked: the program ranks the 8 corners and 6 edges
MaxPermLen == 8

\* the list a with v inserted at index k
list_insert(a, k, v) ==
    [i \in 0..Cardinality(DOMAIN a) |->
        IF i < k THEN a[i] ELSE IF i = k THEN v ELSE a[i - 1]]

RECURSIVE PermsOf(_)
\* the lists that hold each of 0..n-1 once
PermsOf(n) ==
    IF n = 0 THEN {arange(0)}
    ELSE {list_insert(p, k, n - 1) : p \in PermsOf(n - 1), k \in 0..(n - 1)}

InitLehmer ==
    /\ \E n \in 0..MaxPermLen : permutation \in PermsOf(n)
    /\ lehmer_index = 0
    /\ edge6_index = <<>>
    /\ decoded_perm = <<>>
    /\ outcome = "permutation"
    /\ state = solved_state
    /\ initial_state = solved_state
    /\ path = <<>>
    /\ move_names = <<>>
    /\ other_state = <<>>
    /\ pdb_build = <<>>
    /\ written = <<>>
    /\ CodecIdle
    /\ SearchIdle

\* index = lehmer_encode(perm)
encode_permutation ==
    /\ outcome = "permutation"
    /\ lehmer_index' = lehmer_encode(permutation)
    /\ outcome' = "encoded"
    /\ UNCHANGED <<state, initial_state, path, move_names, permutation,
                   decoded_perm, other_state, pdb_build, written, codecVars,
                   searchVars, edge6_index>>

\* lehmer_decode(n, index) on the rank just computed
decode_index ==
    /\ outcome = "encoded"
    /\ decoded_perm' = lehmer_decode(Cardinality(DOMAIN permutation), lehmer_index)
    /\ outcome' = "decoded"
    /\ UNCHANGED <<state, initial_state, path, move_names, permutation,
                   lehmer_index, other_state, pdb_build, written, codecVars,
                   searchVars, edge6_index>>

NextLehmer == encode_permutation \/ decode_index

SpecLehmer == InitLehmer /\ [][NextLehmer]_vars

----------------------------------------------------------------------------
(* SpecEdge6: Edge6PDB.abstract on two states that a caller constructed,   *)
(* under each of the two lists of tracked positions.                       *)

\* most entries of the edge arrays in which other_state differs from state
MaxEdits == 1

\* the ways to pick the six cubies that stand on tracked positions
SixOfTwelve == {c \in SUBSET (0..11) : Cardinality(c) = 6}

\* the numbers of S in ascending order
ascending(S) ==
    [j \in 0..(Cardinality(S) - 1) |->
        CHOOSE x \in S : Cardinality({y \in S : y < x}) = j]

\* CubeState(edge_perm=..., edge_orient=...): the cubies of c stand on the
\* positions of the first table and the others on those of the second, in
\* ascending order from a place that depends on c; the positions numbered in
\* c are flipped
edge_arrangement(c) ==
    LET from == CHOOSE x \in c : \A y \in c : x <= y
        on(tracked_positions, cubies, pos) ==
            LET j == CHOOSE j \in 0..5 : tracked_positions[j] = pos
            IN  ascending(cubies)[(j + from) % 6]
    IN  CubeState(arange(8), zeros(8),
                  [pos \in 0..11 |->
                      IF \E j \in 0..5 : EDGE_SET_1_POSITIONS[j] = pos
                      THEN on(EDGE_SET_1_POSITIONS, c, pos)
                      ELSE on(EDGE_SET_2_POSITIONS, (0..11) \ c, pos)],
                  [pos \in 0..11 |-> IF pos \in c THEN 1 ELSE 0])

\* changes to the edge arrays: two positions exchanged, one position flipped
EdgeEdits ==
    {<<"swap", 0, 1>>, <<"swap", 4, 7>>, <<"swap", 3, 10>>, <<"swap", 6, 11>>,
     <<"flip", 2, 2>>, <<"flip", 9, 9>>}

\* a copy of s with one change made to its edge arrays
edited(s, e) ==
    IF e[1] = "swap"
    THEN CubeState(s.corner_perm, s.corner_orient,
                   Swap(s.edge_perm, e[2], e[3]), s.edge_orient)
    ELSE CubeState(s.corner_perm, s.corner_orient, s.edge_perm,
                   Overwrite(s.edge_orient, e[2], 1 - s.edge_orient[e[2]]))

RECURSIVE edited_by(_, _)
\* a copy of s with the changes of q made in order
edited_by(s, q) ==
    IF q = <<>> THEN s ELSE edited_by(edited(s, Head(q)), Tail(q))

InitEdge6 ==
    /\ \E c \in SixOfTwelve : state = edge_arrangement(c)
    /\ \E q \in SeqsUpTo(EdgeEdits, MaxEdits) : other_state = edited_by(state, q)
    /\ initial_state = state
    /\ path = <<>>
    /\ move_names = <<>>
    /\ outcome = "constructed"
    /\ CodecIdle
    /\ SearchIdle
    /\ permutation = <<>> /\ lehmer_index = 0 /\ decoded_perm = <<>>
    /\ pdb_build = <<>> /\ written = <<>>
    /\ edge6_index = <<>>

\* Edge6PDB(tracked_positions).abstract on each of the two states
abstract_both(tracked_positions) ==
    /\ outcome = "constructed"
    /\ edge6_index' = [tracked_positions |-> tracked_positions,
                       state |-> edge6_abstract(state, tracked_positions),
                       other_state |-> edge6_abstract(other_state, tracked_positions)]
    /\ outcome' = "abstracted"
    /\ UNCHANGED <<state, initial_state, path, move_names, codecVars, searchVars,
                   other_state, permutation, lehmer_index, decoded_perm,
                   pdb_build, written>>

NextEdge6 ==
    \E tracked_positions \in {EDGE_SET_1_POSITIONS, EDGE_SET_2_POSITIONS} :
        abstract_both(tracked_positions)

SpecEdge6 == InitEdge6 /\ [][NextEdge6]_vars

----------------------------------------------------------------------------
(* SpecBuild: the BFS of one build, one step per entry popped and per move *)
(* of its loop.  pdb_build holds the table under construction with queue   *)
(* and visited, the entry popped and the move the loop is at; written is   *)
(* the list of the assignments to self.pdb in the order they were made.    *)

\* the builds of build_korf_pdbs, each up to its loop
BuildStarts ==
    {[name |-> "corner", b |-> corner_build_start],
     [name |-> "edge6a", b |-> edge6_build_start(EDGE_SET_1_POSITIONS)],
     [name |-> "edge6b", b |-> edge6_build_start(EDGE_SET_2_POSITIONS)]}

\* self.abstract(solved_state()) of the table being built
build_solved_index(name) ==
    IF name = "corner" THEN corner_abstract(solved_state)
    ELSE IF name = "edge6a" THEN edge6_abstract(solved_state, EDGE_SET_1_POSITIONS)
    ELSE edge6_abstract(solved_state, EDGE_SET_2_POSITIONS)

InitBuild ==
    /\ \E start \in BuildStarts :
          /\ pdb_build = [name |-> start.name, b |-> start.b, popped |-> <<>>,
                          dist |-> 0, move |-> 0]
          /\ written = IF build_solved_index(start.name) \in DOMAIN start.b.pdb
                       THEN <<[index |-> build_solved_index(start.name), dist |-> 0]>>
                       ELSE <<>>
    /\ outcome = "while"
    /\ state = solved_state
    /\ initial_state = solved_state
    /\ path = <<>>
    /\ move_names = <<>>
    /\ other_state = <<>>
    /\ permutation = <<>>
    /\ lehmer_index = 0
    /\ edge6_index = <<>>
    /\ decoded_perm = <<>>
    /\ CodecIdle
    /\ SearchIdle

\* "while queue: ... = queue.popleft()": the head of the queue is taken, or
\* the loop ends.  The build is followed while the entry popped is less
\* than MaxBuildDepth from solved.
build_popleft ==
    /\ outcome = "while"
    /\ IF pdb_build.b.queue = <<>>
       THEN /\ outcome' = "built"
            /\ UNCHANGED pdb_build
       ELSE IF Head(pdb_build.b.queue).dist >= MaxBuildDepth
       THEN /\ outcome' = "beyond"
            /\ UNCHANGED pdb_build
       ELSE /\ pdb_build' =
                [pdb_build EXCEPT
                    !.b.queue = Tail(@),
                    !.popped = IF pdb_build.name = "corner"
                               THEN Head(pdb_build.b.queue).index
                               ELSE Head(pdb_build.b.queue).state,
                    !.dist = Head(pdb_build.b.queue).dist,
                    !.move = 1]
            /\ outcome' = "for"
    /\ UNCHANGED <<state, initial_state, path, move_names, other_state,
                   permutation, lehmer_index, decoded_perm, written,
                   codecVars, searchVars, edge6_index>>

\* the table after the body of "for move in ALL_MOVES" at the move the loop
\* is at
build_body ==
    IF pdb_build.name = "corner"
    THEN corner_build_move(pdb_build.b, pdb_build.popped, pdb_build.dist,
                           pdb_build.move)
    ELSE edge6_build_move(pdb_build.b, pdb_build.popped, pdb_build.dist,
                          pdb_build.move)

\* the rank the body of the loop looks up in visited
build_rank ==
    IF pdb_build.name = "corner"
    THEN apply_move_to_abstract(pdb_build.popped, ALL_MOVES[pdb_build.move])
    ELSE edge6_abstract(apply_in_place(ALL_MOVES[pdb_build.move], pdb_build.popped),
                        pdb_build.b.tracked_positions)

\* one turn of "for move in ALL_MOVES": the rank reached by the move is
\* written and queued if it was not visited, and in Edge6PDB.build the move
\* is undone on working_state; an assignment to self.pdb goes to written
build_move ==
    /\ outcome = "for"
    /\ pdb_build' =
         [pdb_build EXCEPT
             !.b = build_body,
             !.popped = IF pdb_build.name = "corner" THEN @
                        ELSE edge6_build_undo(@, pdb_build.move),
             !.move = @ + 1]
    /\ written' = IF build_body.queue # pdb_build.b.queue
                  THEN Append(written, [index |-> build_rank,
                                        dist |-> build_body.pdb[build_rank]])
                  ELSE written
    /\ outcome' = IF pdb_build.move = Len(ALL_MOVES) THEN "while" ELSE "for"
    /\ UNCHANGED <<state, initial_state, path, move_names, other_state,
                   permutation, lehmer_index, decoded_perm, codecVars,
                   searchVars, edge6_index>>

NextBuild == build_popleft \/ build_move

SpecBuild == InitBuild /\ [][NextBuild]_vars

----------------------------------------------------------------------------
(* The four invariants of a physically realizable state, stated directly.  *)

IsPermutation(a) == {a[i] : i \in DOMAIN a} = DOMAIN a

\* parity of the number of inversions of a
InversionParity(a) ==
    Cardinality({pr \in (DOMAIN a) \X (DOMAIN a) : pr[1] < pr[2] /\ a[pr[1]] > a[pr[2]]}) % 2

PhysicallyRealizable(s) ==
    /\ IsPermutation(s.corner_perm) /\ IsPermutation(s.edge_perm)
    /\ InversionParity(s.corner_perm) = InversionParity(s.edge_perm)
    /\ np_sum(s.corner_orient) % 3 = 0
    /\ np_sum(s.edge_orient) % 2 = 0

QuarterTurns == {"U", "U'", "D", "D'", "L", "L'", "R", "R'", "F", "F'", "B", "B'"}
HalfTurns == {"U2", "D2", "L2", "R2", "F2", "B2"}

\* the move m applied k times to s
RECURSIVE ApplyTimes(_, _, _)
ApplyTimes(m, k, s) == IF k = 0 THEN s ELSE ApplyTimes(m, k - 1, apply(MOVE_TABLE[m], s))

\* the inverses of the moves of q, in reverse order
RECURSIVE InverseSequence(_)
InverseSequence(q) ==
    IF q = <<>> THEN <<>>
    ELSE Append(InverseSequence(Tail(q)), MOVE_INVERSES[Head(q)])

----------------------------------------------------------------------------
(* Claims about the move algebra.                                          *)

\* C2: applying any of the 18 moves to the current state and then the move
\* MOVE_INVERSE_TABLE gives for it returns exactly the current state; and
\* applying the inverses of the moves applied so far, in reverse order,
\* returns to the state the walk started from.
C2_InverseUndoes ==
    outcome = "walk" =>
        /\ \A n \in MoveNameSet :
              apply(MOVE_INVERSE_TABLE[n], apply(MOVE_TABLE[n], state)) = state
        /\ LET back == apply_moves(state, InverseSequence(path))
           IN  ~back.raised /\ back.state = initial_state

\* a walk of full length from a state that no sequence of moves produces
C2_Witness ==
    /\ outcome = "walk"
    /\ initial_state = Unrealizable
    /\ Len(path) = MaxMoves
    /\ state # initial_state

\* C3: from every state, each of the twelve quarter turns applied four
\* times, and each of the six half turns applied twice, gives the state back.
C3_TurnOrders ==
    outcome = "walk" =>
        /\ \A q \in QuarterTurns : ApplyTimes(q, 4, state) = state
        /\ \A q \in HalfTurns : ApplyTimes(q, 2, state) = state

\* a state, not produced from solved, on which no quarter turn has order 2
C3_Witness ==
    /\ outcome = "walk"
    /\ initial_state \in {Unrealizable, TwistedCorner}
    /\ path # <<>>
    /\ \A q \in QuarterTurns : ApplyTimes(q, 2, state) # state

\* C4: every state reached from the solved state by a sequence of moves
\* passes is_valid() and satisfies the four invariants, and after a single
\* move from solved the state is valid and not solved.
C4_ReachableValid ==
    (outcome = "walk" /\ initial_state = solved_state) =>
        /\ is_valid(state)
        /\ PhysicallyRealizable(state)
        /\ Len(path) = 1 => ~is_solved(state)

\* a state reached from solved by moves that twist corners and flip edges
C4_Witness ==
    /\ outcome = "walk"
    /\ initial_state = solved_state
    /\ Len(path) = MaxMoves
    /\ \E i \in 0..7 : state.corner_orient[i] # 0
    /\ \E i \in 0..11 : state.edge_orient[i] # 0

----------------------------------------------------------------------------
(* Claims about is_valid.                                                  *)

\* C8: is_valid() returns true if and only if all four invariants hold
\* (cp and ep permutations, equal parities, corner orientation sum 0 mod 3,
\* edge orientation sum 0 mod 2); in particular it returns false for a
\* state whose cp or ep repeats a value.
C8_IsValidIffRealizable ==
    outcome \in {"valid", "invalid"} =>
        ((outcome = "valid") <=> PhysicallyRealizable(state))

\* C6: for every valid state s, reading back the grid rendered from s gives
\* s again: faces_to_cubie_state(cubie_state_to_faces(s)) = s
C6_DecodeOfEncode ==
    (outcome \in {"decoded", "rendered"} /\ painted = 0 /\ is_valid(state)
        /\ PhysicallyRealizable(state))
        => decoded = state

\* C7: for every grid that is read back without error, rendering the state
\* read back gives exactly that grid
C7_EncodeOfDecode == outcome = "rendered" => refaces = faces

\* C9: faces_to_cubie_state returns a state only for grids a cube can show:
\* whatever it returns other than None satisfies the four invariants
C9_DecodeValidates ==
    (outcome \in {"decoded", "rendered"} /\ decoded # None)
        => (is_valid(decoded) /\ PhysicallyRealizable(decoded))

----------------------------------------------------------------------------
(* Claims about the solver and its heuristic.                              *)

\* C1: whenever solve returns a list of move names, applying those moves in
\* order to the initial state yields the solved state
C1_SolutionSolves ==
    outcome = "solution" =>
        LET r == apply_moves(initial_state, result)
        IN  /\ ~r.raised
            /\ r.state = solved_state
            /\ verify_solution(initial_state, result)

\* a two-move scramble for which solve has returned a list of two moves
C1_Witness ==
    /\ outcome = "solution"
    /\ Len(move_names) = 2
    /\ Len(result) = 2
    /\ ~is_solved(initial_state)

\* C10: the heuristic is admissible: on the state a scramble of L moves
\* leaves, h is at most L.  A rank that the builds have not written after
\* MaxBuildDepth levels is written later, with a larger distance, or never,
\* so the scrambles compared are those of at most MaxBuildDepth moves.
C10_Admissible ==
    (outcome = "evaluated" /\ Len(move_names) <= MaxBuildDepth)
        => h_value <= Len(move_names)

----------------------------------------------------------------------------
(* Claims about the abstractions, the ranks and the builds of the tables.  *)

\* C11: each of the three abstractions is a homomorphism for the 18 moves:
\* two states with equal rank have equal rank after the same move
C11_Homomorphism ==
    [][\A k \in {"corner", "edge6a", "edge6b"} :
          ranks(state)[k] = ranks(other_state)[k]
              => ranks(state')[k] = ranks(other_state')[k]]_vars

----------------------------------------------------------------------------
(* Claims about the solver's iterations and its answers to set scrambles.  *)

\* the loop of solve is at or within its limit, _search runs and a solution
\* is returned only in an iteration below the limit, no exception ends the
\* call, and None is returned at the limit or when nothing went over the
\* threshold
IterationsWithinLimit ==
    /\ iteration <= max_iterations
    /\ outcome \in {"enter", "loop", "return", "solution"}
            => iteration < max_iterations
    /\ outcome # "IndexError"
    /\ outcome = "none"
            => (iteration = max_iterations \/ returned.next_threshold = inf)

\* C12: solve runs at most max_iterations iterations and then returns None
\* by a normal return, and the call ends.  A call followed up to a table
\* entry that the builds write after MaxBuildDepth levels counts as ended.
C12_StopsAtLimit ==
    /\ []IterationsWithinLimit
    /\ <>solve_ended

\* solve has returned None at its limit after an iteration that found no
\* solution
C12_Witness ==
    /\ outcome = "none"
    /\ max_iterations >= 1
    /\ iteration = max_iterations
    /\ nodes_expanded > 1

\* solve was called on a one-move scramble with at least one iteration
one_move_call == Len(move_names) = 1 /\ max_iterations >= 1

\* C13: for every generator m (U among them), solve on apply(m, solved)
\* returns exactly the one-move list [inverse of m]: the call ends with a
\* list, and the list is that one.
C13_InverseOfOneMove ==
    /\ [](one_move_call /\ solve_ended
            => /\ outcome = "solution"
               /\ result = <<MOVE_INVERSES[move_names[1]]>>)
    /\ (one_move_call ~> solve_ended)

\* solve has returned [U'] for the scramble U
C13_Witness ==
    /\ move_names = <<"U">>
    /\ outcome = "solution"
    /\ result = <<"U'">>
    /\ nodes_expanded > 1

\* solve was called on the scramble U R with at least one iteration
u_r_call == move_names = <<"U", "R">> /\ max_iterations >= 1

\* C14: for the scramble U R solve returns exactly the list [R', U'].
C14_UndoesUR ==
    /\ [](u_r_call /\ solve_ended
            => outcome = "solution" /\ result = <<"R'", "U'">>)
    /\ (u_r_call ~> solve_ended)

\* solve has returned [R', U'] for the scramble U R
C14_Witness ==
    /\ move_names = <<"U", "R">>
    /\ outcome = "solution"
    /\ result = <<"R'", "U'">>
    /\ max_depth_reached = 2

\* solve was called on the solved state with at least one iteration
solved_call == is_solved(initial_state) /\ max_iterations >= 1

\* C15: on a solved initial state with max_iterations >= 1 solve returns
\* the empty list, not None, in its first iteration, and no move is
\* applied: the root call of _search is the only node.
C15_SolvedGivesEmpty ==
    /\ [](solved_call
            => /\ state = initial_state
               /\ iteration = 0
               /\ nodes_expanded <= 1
               /\ outcome \notin {"loop", "none", "beyond"}
               /\ solve_ended => (outcome = "solution" /\ result = <<>>))
    /\ (solved_call ~> solve_ended)

\* solve has returned the empty list for the empty scramble
C15_Witness ==
    /\ move_names = <<>>
    /\ max_iterations >= 1
    /\ outcome = "solution"
    /\ result = <<>>
    /\ nodes_expanded = 1
    /\ iteration = 0

\* C16: R U R' U' applied six times in a row to the solved state returns
\* the solved state, and 1, 2, 3, 4 or 5 repetitions do not.
C16_SexyMoveOrderSix ==
    \A k \in 1..6 :
        (/\ initial_state = solved_state
         /\ move_names = Repeat(SexyMove, k)
         /\ outcome = "returned")
            => (is_solved(state) <=> k = 6)

\* apply_moves has returned the solved state for six repetitions
C16_Witness ==
    /\ initial_state = solved_state
    /\ move_names = Repeat(SexyMove, 6)
    /\ Len(path) = 24
    /\ outcome = "returned"
    /\ is_solved(state)

\* the positions of move_names that hold a name outside MOVE_TABLE
unknown_at == {i \in 1..Len(move_names) : move_names[i] \notin DOMAIN MOVE_TABLE}

\* C18: apply_moves on a list with a name that is no move ends in
\* ValueError and returns no state, also when valid names come before it:
\* the loop never gets past the first unknown name, where the only step
\* is the raise; the state object passed in keeps its value.
C18_UnknownMoveRaises ==
    /\ other_state = initial_state
    /\ unknown_at # {}
        => /\ outcome # "returned"
           /\ \A i \in 1..Len(path) : i \notin unknown_at
           /\ Len(path) < Len(move_names)
    /\ outcome = "ValueError" => Len(path) + 1 \in unknown_at

\* the call has raised at an unknown name after two valid moves
C18_Witness ==
    /\ move_names = <<"U", "R", "X", "F">>
    /\ outcome = "ValueError"
    /\ path = <<"U", "R">>
    /\ state # initial_state
    /\ other_state = initial_state

\* sum over i of count_i * (n-1-i)!, count_i the number of positions j > i
\* with p[j] < p[i]
LehmerSum(p) ==
    LET n == Cardinality(DOMAIN p)
    IN  np_sum([i \in 0..(n - 1) |->
                  Cardinality({j \in (i + 1)..(n - 1) : p[j] < p[i]})
                      * math_factorial(n - 1 - i)])

\* C17: for every permutation p of 0..n-1 with n <= 8, lehmer_encode(p)
\* lies in [0, n!) and equals the sum over i of count_i * (n-1-i)!, and
\* lehmer_decode(n, lehmer_encode(p)) is p again; so distinct permutations
\* get distinct ranks, and the n! ranks of [0, n!) are all taken.
C17_LehmerRoundTrip ==
    LET n == Cardinality(DOMAIN permutation)
    IN  /\ outcome \in {"encoded", "decoded"}
            => /\ lehmer_index \in 0..(math_factorial(n) - 1)
               /\ lehmer_index = LehmerSum(permutation)
        /\ outcome = "decoded" => decoded_perm = permutation

\* a permutation of 8 that is not the identity has been ranked and read back
C17_Witness ==
    /\ outcome = "decoded"
    /\ Cardinality(DOMAIN permutation) = 8
    /\ lehmer_index = 40319
    /\ decoded_perm = Z(<<7, 6, 5, 4, 3, 2, 1, 0>>)

\* the three table lookups Heuristic.h makes on the state
lookups == {h_corner(state), h_edge6a(state), h_edge6b(state)}

\* C19: h(s) is the maximum of the three table lookups, it is 0 on the
\* solved state, and it is non-negative on every state reached from solved.
\* (A lookup the builds write after MaxBuildDepth levels reads inf here.)
C19_MaxOfLookups ==
    outcome = "evaluated"
        => /\ h_value \in lookups
           /\ \A v \in lookups : h_value >= v
           /\ is_solved(state) => h_value = 0
           /\ h_value >= 0

\* h has been evaluated on a scrambled state whose lookups differ
C19_Witness ==
    /\ outcome = "evaluated"
    /\ ~is_solved(state)
    /\ h_value = 2
    /\ h_value = h_corner(state)
    /\ \E v \in lookups : v < h_value

\* the ranks assigned to, in the order of the assignments
written_indices == [i \in 1..Len(written) |-> written[i].index]

\* C20: during the BFS build of each of the three tables an entry is
\* written at most once and never overwritten (the table holds, at each
\* rank written, the distance of its one assignment, and nothing else), the
\* distances are non-decreasing in the order of writing, and the rank of
\* the solved state holds 0.
C20_WrittenOnce ==
    /\ Cardinality({written_indices[i] : i \in 1..Len(written)}) = Len(written)
    /\ DOMAIN pdb_build.b.pdb = {written_indices[i] : i \in 1..Len(written)}
    /\ \A i \in 1..Len(written) :
          pdb_build.b.pdb[written[i].index] = written[i].dist
    /\ \A i \in 1..(Len(written) - 1) : written[i].dist <= written[i + 1].dist
    /\ get(pdb_build.b, build_solved_index(pdb_build.name)) = 0

\* a build has gone through two levels: entries at distance 2 are written
\* and a rank already visited was met and left alone
C20_Witness ==
    /\ outcome = "beyond"
    /\ pdb_build.name = "edge6a"
    /\ Len(written) > 19
    /\ written[Len(written)].dist = 2
    /\ Len(written) < 1 + 18 + 18 * 18

\* the least of a non-empty set of numbers
Min(S) == CHOOSE x \in S : \A y \in S : x <= y

\* C22: the threshold of the first iteration is h(initial); the threshold
\* of each later iteration is the least f = g + h over the nodes cut off
\* (f > threshold) in the iteration before it, and so it is strictly greater
\* than the threshold before; the threshold changes at no other point.
C22_ThresholdRule ==
    /\ [](iteration = 0 /\ outcome \notin {"ready", "beyond"}
            => threshold = h(initial_state))
    /\ [][/\ iteration' # iteration
             => /\ iteration' = iteration + 1
                /\ cut_off # {}
                /\ \A f \in cut_off : f > threshold
                /\ threshold' = Min(cut_off)
                /\ threshold' > threshold
          /\ threshold' # threshold
             => outcome = "ready" \/ iteration' = iteration + 1]_vars

\* the third iteration is under way: the threshold has been raised twice,
\* and nodes have been cut off with different f
C22_Witness ==
    /\ iteration = 2
    /\ outcome = "loop"
    /\ threshold > h(initial_state) + 1
    /\ Cardinality(cut_off) > 1
    /\ \A f \in cut_off : f > threshold

\* no two moves next to each other in q turn the same face
NoSameFaceTwice(q) ==
    \A i \in 1..(Len(q) - 1) : MOVE_TO_FACE[q[i]] # MOVE_TO_FACE[q[i + 1]]

\* the moves on the path of the call of _search under way
current_path == path_slice(path, stack[Len(stack)].path_len)

\* C23: the DFS never applies a move on the face of the move before it on
\* the path (the inverse of that move included): the path of every call
\* under way, every list a call returns and every solution solve returns
\* has no two consecutive moves on one face, and each call was entered by a
\* move on another face than the move its caller was entered by.
C23_NoSameFaceInARow ==
    /\ stack # <<>> /\ outcome \in {"enter", "loop", "return"}
          => /\ NoSameFaceTwice(current_path)
             /\ \A k \in 2..Len(stack) :
                   /\ stack[k].last_move_name = path[stack[k].path_len - 1]
                   /\ stack[k - 1].last_move_name # "None"
                        => /\ stack[k].last_move_name
                                # MOVE_INVERSES[stack[k - 1].last_move_name]
                           /\ MOVE_TO_FACE[stack[k].last_move_name]
                                # MOVE_TO_FACE[stack[k - 1].last_move_name]
    /\ outcome = "return" /\ returned.is_list => NoSameFaceTwice(returned.result)
    /\ outcome = "solution" => NoSameFaceTwice(result)

\* a call two moves deep is in its loop at a move on the face of the move
\* it was entered by, which the loop skips
C23_Witness ==
    /\ outcome = "loop"
    /\ Len(stack) = 3
    /\ stack[3].move <= Len(ALL_MOVES)
    /\ MOVE_TO_FACE[ALL_MOVES[stack[3].move].name]
            = MOVE_TO_FACE[stack[3].last_move_name]
    /\ ALL_MOVES[stack[3].move].name # MOVE_INVERSES[stack[3].last_move_name]

\* the initial state with the moves on the path of the call under way
\* applied in order
state_on_path == apply_moves(initial_state, current_path).state

\* C24: at every entry to _search the one working state is the initial
\* state with path[0..path_len) applied in order and g equals path_len;
\* when a child call has returned (FAIL or a solution) and the inverse move
\* has been applied, the working state is what it was before the move (the
\* state of the caller's node, from which the move leads to the state the
\* child returned in); the state object the caller passed to solve is never
\* modified.
C24_PathStateCoherence ==
    /\ [](outcome \in {"enter", "loop"}
            => /\ state = state_on_path
               /\ stack[Len(stack)].g = stack[Len(stack)].path_len
               /\ stack[Len(stack)].path_len = Len(stack) - 1)
    /\ [](outcome \in {"solution", "none"} => state = initial_state)
    /\ [][outcome = "return" /\ stack # <<>>
            => /\ state' = state_on_path
               /\ apply_in_place(ALL_MOVES[stack[Len(stack)].move], state')
                    = state]_vars
    /\ [][initial_state' = initial_state]_vars

\* a child call two moves deep has returned FAIL and its move has been
\* undone; the loop of its caller goes on from the state it had
C24_Witness ==
    /\ outcome = "loop"
    /\ Len(stack) = 2
    /\ stack[2].move > 1
    /\ stack[2].min_overflow < inf
    /\ state = apply_moves(initial_state, <<path[0]>>).state
    /\ state # initial_state
    /\ path[1] # "None"

\* on the grid read, the reference color of the cubie found at edge
\* position pos lies on the reference face of the position
reference_on_expected_face(pos) ==
    LET definition == EDGE_DEFINITIONS[pos]
        colors == read_colors(faces, definition)
        reference_color == EDGE_REFERENCE_COLORS[decoded.edge_perm[pos]]
    IN  \E i \in DOMAIN definition :
            /\ colors[i] = reference_color
            /\ definition[i][1] = EDGE_POSITION_REFERENCE_FACES[pos]

\* C25: when a grid is decoded, the orientation given to the edge at a
\* position is 0 if and only if the reference color of the cubie found
\* there (EDGE_REFERENCE_COLORS) lies on the reference face of the position
\* (EDGE_POSITION_REFERENCE_FACES), and 1 otherwise.
C25_EdgeOrientationByReference ==
    (outcome \in {"decoded", "rendered"} /\ decoded # None)
        => \A pos \in 0..11 :
              /\ decoded.edge_orient[pos] \in {0, 1}
              /\ decoded.edge_orient[pos] = 0 <=> reference_on_expected_face(pos)

\* the least value h can have on s with the full tables: a lookup the
\* builds write after MaxBuildDepth levels is above MaxBuildDepth
h_at_least(s) == IF h(s) = inf THEN MaxBuildDepth + 1 ELSE h(s)

\* C26: the heuristic is consistent: on every state s reached from solved
\* and for every move m, h(s) <= 1 + h(apply(m, s)).  The states compared
\* are those whose neighbour has its entries written within MaxBuildDepth
\* levels; an entry of s written later counts as MaxBuildDepth + 1, the
\* least it can be.
C26_Consistent ==
    outcome = "evaluated"
        => \A n \in MoveNameSet :
              LET neighbour == apply(MOVE_TABLE[n], state)
              IN  h(neighbour) # inf => h_at_least(state) <= 1 + h(neighbour)

\* the cubie and the flip bit at each of the six tracked positions
tracked_content(s, tracked_positions) ==
    [i \in 0..5 |-> <<s.edge_perm[tracked_positions[i]],
                      IF s.edge_orient[tracked_positions[i]] # 0 THEN 1 ELSE 0>>]

RECURSIVE nth_combination(_, _, _, _)
\* the k numbers, ascending and taken from least..n-1, that stand at place
\* index when all such choices are listed in dictionary order
nth_combination(index, least, n, k) ==
    IF k = 0 THEN <<>>
    ELSE LET with_least == math_comb(n - 1 - least, k - 1)
         IN  IF index < with_least
             THEN <<least>> \o nth_combination(index, least + 1, n, k - 1)
             ELSE nth_combination(index - with_least, least + 1, n, k)

\* the contents of the tracked positions that a rank stands for: the six
\* cubies from its first digit, their order from the second, the flips from
\* the third
content_of_rank(r) ==
    LET which_edges == r \div (EDGE_PERM_SIZE * EDGE_ORIENT_SIZE)
        perm_idx == (r \div EDGE_ORIENT_SIZE) % EDGE_PERM_SIZE
        orient_idx == r % EDGE_ORIENT_SIZE
        cubies == Z(nth_combination(which_edges, 0, 12, 6))
        order == lehmer_decode(6, perm_idx)
    IN  [i \in 0..5 |-> <<cubies[order[i]], (orient_idx \div (2 ^ i)) % 2>>]

\* C27: the Edge6 rank of a state whose edge_perm is a permutation and whose
\* edge_orient holds 0s and 1s is which_edges_rank * (720 * 64) + perm_rank
\* * 64 + orient_bits, lies in [0, 42,577,920), and two states have the same
\* rank exactly when the six tracked positions hold the same cubies with the
\* same orientations; the contents can be read back from the rank
C27_Edge6RankOfContent ==
    outcome = "abstracted"
        => LET tracked_positions == edge6_index.tracked_positions
               e == encode_edge6_pattern(state, tracked_positions)
           IN  /\ edge6_index.state \in 0..(42577920 - 1)
               /\ edge6_index.other_state \in 0..(42577920 - 1)
               /\ e.which_edges \in 0..(WHICH_EDGES_SIZE - 1)
               /\ e.perm_idx \in 0..(EDGE_PERM_SIZE - 1)
               /\ e.orient_idx \in 0..(EDGE_ORIENT_SIZE - 1)
               /\ edge6_index.state
                     = e.which_edges * (720 * 64) + e.perm_idx * 64 + e.orient_idx
               /\ edge6_index.state = edge6_index.other_state
                     <=> tracked_content(state, tracked_positions)
                            = tracked_content(other_state, tracked_positions)
               /\ content_of_rank(edge6_index.state)
                     = tracked_content(state, tracked_positions)
               /\ content_of_rank(edge6_index.other_state)
                     = tracked_content(other_state, tracked_positions)

\* two states that differ outside the tracked positions have one rank, the
\* last one of the table
C27_Witness ==
    /\ outcome = "abstracted"
    /\ state # other_state
    /\ edge6_index.state = edge6_index.other_state
    /\ edge6_index.state > 42577920 - EDGE_PERM_SIZE * EDGE_ORIENT_SIZE

\* a shorter list of moves than the one returned solves the state
shorter_solution_exists ==
    \E q \in SeqsUpTo(MoveNameSet, Len(result) - 1) :
        is_solved(apply_moves(initial_state, q).state)

\* C28: a list that solve returns for a state reachable from the solved
\* state is a shortest solution: no shorter list of moves solves the state,
\* the list is no longer than the scramble that produced the state, and its
\* length is the threshold of the iteration that found it
C28_MinimalSolution ==
    outcome = "solution"
        => /\ is_solved(apply_moves(initial_state, result).state)
           /\ Len(result) <= Len(move_names)
           /\ Len(result) = threshold
           /\ ~shorter_solution_exists

\* the index of the face a move turns, and the color of that face on the
\* solved cube
turned_face(name) ==
    LET X == MOVE_TO_FACE[name]
    IN  IF X = "U" THEN [index |-> U, color |-> "W"]
        ELSE IF X = "D" THEN [index |-> D, color |-> "Y"]
        ELSE IF X = "L" THEN [index |-> L, color |-> "O"]
        ELSE IF X = "R" THEN [index |-> R, color |-> "R"]
        ELSE IF X = "F" THEN [index |-> F, color |-> "G"]
        ELSE [index |-> B, color |-> "B"]

\* C29: the move table and the tables of the converter agree: the grid that
\* cubie_state_to_faces gives for a move on face X applied to the solved
\* state shows all nine stickers of face X in the solved color of X
C29_TurnedFaceKeepsColor ==
    (outcome = "shown" /\ painted = 0)
        => \A name \in MoveNameSet :
              state = apply(MOVE_TABLE[name], solved_state)
                  => \A row \in 0..2, col \in 0..2 :
                        FACE_COLORS[faces[turned_face(name).index][row][col]]
                            = turned_face(name).color

\* the quarter turns a move makes on its face: 1 for X, 2 for X2, 3 for X'
quarter_turns(name) ==
    IF name \in HalfTurns THEN 2 ELSE IF name = MOVE_TO_FACE[name] THEN 1 ELSE 3

\* the move that makes k quarter turns of face X
face_move(X, k) ==
    CHOOSE name \in MoveNameSet : MOVE_TO_FACE[name] = X /\ quarter_turns(name) = k

\* s after the one move, or none, that two moves on one face come to
combined(first, second, s) ==
    LET k == (quarter_turns(first) + quarter_turns(second)) % 4
    IN  IF k = 0 THEN s
        ELSE apply(MOVE_TABLE[face_move(MOVE_TO_FACE[first], k)], s)

\* C30: on every state and for each face X, X applied twice gives what X2
\* gives and X applied three times gives what X' gives, in all four arrays,
\* with apply and with apply_in_place; a walk whose last two moves are on
\* one face ends where the single combined move, or no move, leads
C30_SameFaceTurnsCombine ==
    /\ \A X \in {"U", "D", "L", "R", "F", "B"} :
          /\ ApplyTimes(face_move(X, 1), 2, state)
                = apply(MOVE_TABLE[face_move(X, 2)], state)
          /\ ApplyTimes(face_move(X, 1), 3, state)
                = apply(MOVE_TABLE[face_move(X, 3)], state)
          /\ apply_in_place(MOVE_TABLE[face_move(X, 1)],
                            apply_in_place(MOVE_TABLE[face_move(X, 1)], state))
                = apply_in_place(MOVE_TABLE[face_move(X, 2)], state)
    /\ (Len(path) >= 2 /\ MOVE_TO_FACE[path[Len(path)]] = MOVE_TO_FACE[path[Len(path) - 1]])
          => state = combined(path[Len(path) - 1], path[Len(path)],
                              apply_moves(initial_state,
                                          SubSeq(path, 1, Len(path) - 2)).state)

\* a scrambled cube turned by D and D again stands where D2 puts it
C30_Witness ==
    /\ initial_state = Scrambled
    /\ path = <<"D", "D">>
    /\ state = apply(MOVE_TABLE["D2"], initial_state)
    /\ state # initial_state
    /\ state.corner_perm # initial_state.corner_perm
    /\ state.edge_perm # initial_state.edge_perm

====
